---- MODULE Spec2Model ----
(***************************************************************************)
(* Model of the TRDP process-data engine of trdp_pdcom.c: the PD header    *)
(* check, Put/Get on an element, the send pass (trdp_pdSendQueued), the    *)
(* receive path (trdp_pdReceive) and the timeout scan                      *)
(* (trdp_pdHandleTimeOuts), together with the statistics pull of the      *)
(* getStats demo.                                                          *)
(*                                                                         *)
(* Conventions.                                                            *)
(*  - UINT32 sequence and miss counters are pairs <<hi, lo>> of 16-bit     *)
(*    halves, so that arithmetic keeps its 32-bit width.                   *)
(*  - Header fields are held in host order; vos_htonl/vos_ntohl convert at *)
(*    every access in the code and cancel out.                             *)
(*  - TRDP_TIME_T is a number of ticks; 0 is the cleared time              *)
(*    (timerisset(t) <=> t # 0).                                           *)
(*  - A frame buffer is a record of the session heap `mem`, addressed by a *)
(*    pointer (a number); bytes of a buffer beyond those written are 0     *)
(*    (vos_memAlloc clears the block).                                     *)
(***************************************************************************)
EXTENDS Integers, Sequences, FiniteSets, TLC

VARIABLES sess, peer, wire, now, inp, last, hist

vars == <<sess, peer, wire, now, inp, last, hist>>

(***************************************************************************)
(* UINT32 arithmetic                                                       *)
(***************************************************************************)
W16 == 2 ^ 16

U32(n) == <<n \div W16, n % W16>>

UINT32_MAX == <<W16 - 1, W16 - 1>>

U32Add(a, b) ==
    LET lo == a[2] + b[2]
        hi == a[1] + b[1] + (lo \div W16)
    IN  <<hi % W16, lo % W16>>

U32Sub(a, b) ==
    LET lo == a[2] - b[2]
        hi == a[1] - b[1] - (IF lo < 0 THEN 1 ELSE 0)
    IN  <<hi % W16, lo % W16>>

U32Gt(a, b) == (a[1] > b[1]) \/ (a[1] = b[1] /\ a[2] > b[2])

(***************************************************************************)
(* Protocol constants                                                      *)
(***************************************************************************)
TRDP_MAX_PD_DATA_SIZE == 1432
TRDP_MIN_PD_HEADER_SIZE == 40
TRDP_MAX_PD_PACKET_SIZE == TRDP_MAX_PD_DATA_SIZE + TRDP_MIN_PD_HEADER_SIZE
TRDP_PROTO_VER == 256
TRDP_MSG_PD == 20580
TRDP_MSG_PP == 20592
TRDP_MSG_PR == 20594
TRDP_MSG_PE == 20581
TRDP_STATISTICS_PULL_COMID == 31
TRDP_GLOBAL_STATISTICS_COMID == 35

\* v & TRDP_PROTOCOL_VERSION_CHECK_MASK (0xFF00) for a 16-bit v: the high
\* byte, kept in place.
MaskVersion(v) == (v \div 256) * 256

\* trdp_packetSizePD: header plus the data padded to a multiple of 4.
trdp_packetSizePD(dataSize) ==
    TRDP_MIN_PD_HEADER_SIZE + ((dataSize + 3) \div 4) * 4

(***************************************************************************)
(* PD header and its frame check sum                                       *)
(***************************************************************************)
\* The FCS over the header without its last field.  The real CRC32 is
\* replaced by a checksum of the same fields.
vos_crc32(h) ==
    ( h.sequenceCounter[1] * 3 + h.sequenceCounter[2] * 5
    + h.protocolVersion * 7 + h.msgType * 11 + h.comId * 13
    + h.etbTopoCnt * 17 + h.opTrnTopoCnt * 19 + h.datasetLength * 23
    + h.reserved * 29 + h.replyComId * 31 + h.replyIpAddress * 37 ) % 65521

NullHeader ==
    [ sequenceCounter |-> U32(0), protocolVersion |-> 0, msgType |-> 0,
      comId |-> 0, etbTopoCnt |-> 0, opTrnTopoCnt |-> 0, datasetLength |-> 0,
      reserved |-> 0, replyComId |-> 0, replyIpAddress |-> 0,
      frameCheckSum |-> 0 ]

WithFCS(h) == [h EXCEPT !.frameCheckSum = vos_crc32(h)]

\* trdp_pdCheck, mutated: the data length limit is off by one.
trdp_pdCheck_lenOffByOne(pPacket, packetSize) ==
    IF (packetSize < TRDP_MIN_PD_HEADER_SIZE) \/ (packetSize > TRDP_MAX_PD_PACKET_SIZE)
    THEN "WIRE_ERR"
    ELSE IF pPacket.frameCheckSum # vos_crc32(pPacket)
    THEN "CRC_ERR"
    ELSE IF (MaskVersion(pPacket.protocolVersion) # MaskVersion(TRDP_PROTO_VER))
            \/ (pPacket.datasetLength >= TRDP_MAX_PD_DATA_SIZE)
    THEN "WIRE_ERR"
    ELSE IF pPacket.msgType \notin {TRDP_MSG_PD, TRDP_MSG_PP, TRDP_MSG_PR, TRDP_MSG_PE}
    THEN "WIRE_ERR"
    ELSE "NO_ERR"

trdp_pdCheck(pPacket, packetSize) ==
    IF (packetSize < TRDP_MIN_PD_HEADER_SIZE) \/ (packetSize > TRDP_MAX_PD_PACKET_SIZE)
    THEN "WIRE_ERR"
    ELSE IF pPacket.frameCheckSum # vos_crc32(pPacket)
    THEN "CRC_ERR"
    ELSE IF (MaskVersion(pPacket.protocolVersion) # MaskVersion(TRDP_PROTO_VER))
            \/ (pPacket.datasetLength > TRDP_MAX_PD_DATA_SIZE)
    THEN "WIRE_ERR"
    ELSE IF pPacket.msgType \notin {TRDP_MSG_PD, TRDP_MSG_PP, TRDP_MSG_PR, TRDP_MSG_PE}
    THEN "WIRE_ERR"
    ELSE "NO_ERR"

(***************************************************************************)
(* Heap of frame buffers                                                   *)
(***************************************************************************)
\* A frame buffer: the header, the payload bytes written so far and the
\* payload capacity the block was allocated for.
NewFrame(cap) == [frameHead |-> NullHeader, data |-> <<>>, cap |-> cap]

\* vos_memAlloc: the lowest free address (NULL is 0).
vos_memAlloc(mem) == CHOOSE p \in 1..(Cardinality(DOMAIN mem) + 1) : p \notin DOMAIN mem

\* vos_memFree
vos_memFree(mem, p) == [q \in (DOMAIN mem) \ {p} |-> mem[q]]

MemPut(mem, p, f) == [q \in (DOMAIN mem) \cup {p} |-> IF q = p THEN f ELSE mem[q]]

\* memcpy(dst, src, n) on payload bytes: the first n bytes are replaced,
\* the bytes behind them stay.
memcpy(dst, src, n) ==
    [k \in 1..(IF Len(dst) > n THEN Len(dst) ELSE n) |->
        IF k <= n THEN src[k] ELSE dst[k]]

\* The first n payload bytes of a buffer.
Bytes(data, n) == [k \in 1..n |-> IF k <= Len(data) THEN data[k] ELSE 0]

\* memcmp(a, b, n) # 0
memcmpDiffers(a, b, n) == Bytes(a, n) # Bytes(b, n)

(***************************************************************************)
(* Queue elements (PD_ELE_T)                                               *)
(***************************************************************************)
TRDP_INVALID_SOCKET_INDEX == -1

\* A session: the two queues (sequences in pNext order), the scratch frame,
\* the topology counters, the PD statistics and the heap.
HasFlag(flags, f) == f \in flags

\* The element at position i of the send queue, with a new value.
SetSnd(s, i, e) == [s EXCEPT !.pSndQueue[i] = e]
SetRcv(s, i, e) == [s EXCEPT !.pRcvQueue[i] = e]

FrameHead(s, e) == s.mem[e.pFrame].frameHead

(***************************************************************************)
(* trdp_pdPut and trdp_pdGet                                               *)
(***************************************************************************)
\* A caller's data pointer: NULL, or a buffer holding bytes.
NullData == [ptr |-> 0, bytes |-> <<>>]
Data(b) == [ptr |-> 1, bytes |-> b]

\* No (un)marshalling function; a function is given by what it delivers.
NoMarshall == [fn |-> 0, ret |-> "NO_ERR", out |-> <<>>]

\* trdp_pdPut on the element at position i of the send queue (i = 0 is the
\* NULL element).  pData is the caller's data, marshall the marshalling
\* function, allocOk tells whether vos_memAlloc succeeds.
trdp_pdPut(s, i, marshall, pData, dataSize, allocOk) ==
    IF i = 0 THEN [s |-> s, ret |-> "PARAM_ERR"]
    ELSE
    LET e0 == s.pSndQueue[i] IN
    IF (e0.dataSize = 0) /\ (dataSize = 0)
    THEN [ s |-> SetSnd(s, i, [e0 EXCEPT !.privFlags = @ \ {"INVALID_DATA"},
                                         !.updPkts = @ + 1]),
           ret |-> "NO_ERR" ]
    ELSE IF (pData.ptr # 0) /\ (dataSize # 0)
    THEN
        LET late == e0.dataSize = 0
            \* late data: the sizes are set before the allocation
            e1 == IF late
                  THEN [e0 EXCEPT !.dataSize = dataSize,
                                  !.grossSize = trdp_packetSizePD(dataSize)]
                  ELSE e0
        IN
        IF late /\ ~allocOk
        THEN [s |-> SetSnd(s, i, e1), ret |-> "MEM_ERR"]
        ELSE
        LET pTemp == vos_memAlloc(s.mem)
            \* copy the existing header, free the old frame, set the length
            mem2 == IF late
                    THEN vos_memFree(
                            MemPut(s.mem, pTemp,
                                   [ frameHead |-> [s.mem[e0.pFrame].frameHead
                                                    EXCEPT !.datasetLength = dataSize],
                                     data |-> <<>>,
                                     cap |-> e1.grossSize - TRDP_MIN_PD_HEADER_SIZE ]),
                            e0.pFrame)
                    ELSE s.mem
            e2 == IF late THEN [e1 EXCEPT !.pFrame = pTemp] ELSE e1
            s2 == SetSnd([s EXCEPT !.mem = mem2], i, e2)
        IN
        IF ~HasFlag(e2.pktFlags, "MARSHALL") \/ (marshall.fn = 0)
        THEN
            IF dataSize > TRDP_MAX_PD_DATA_SIZE
            THEN [s |-> s2, ret |-> "PARAM_ERR"]
            ELSE
            LET mem3 == [mem2 EXCEPT ![e2.pFrame].data = memcpy(@, pData.bytes, dataSize)]
                e3 == [e2 EXCEPT !.privFlags = @ \ {"INVALID_DATA"},
                                 !.updPkts = @ + 1]
            IN  [s |-> SetSnd([s2 EXCEPT !.mem = mem3], i, e3), ret |-> "NO_ERR"]
        ELSE
            \* the marshaller writes its output and sets the new size
            LET mem3 == [mem2 EXCEPT ![e2.pFrame].data =
                            memcpy(@, marshall.out, Len(marshall.out))]
                s3 == [s2 EXCEPT !.mem = mem3]
                newSize == Len(marshall.out)
            IN
            IF newSize > TRDP_MAX_PD_DATA_SIZE
            THEN [s |-> s3, ret |-> "PARAM_ERR"]
            ELSE
            LET mem4 == [mem3 EXCEPT ![e2.pFrame].frameHead.datasetLength = newSize]
                e3 == [e2 EXCEPT !.dataSize = newSize,
                                 !.grossSize = trdp_packetSizePD(newSize)]
                e4 == IF marshall.ret = "NO_ERR"
                      THEN [e3 EXCEPT !.privFlags = @ \ {"INVALID_DATA"},
                                      !.updPkts = @ + 1]
                      ELSE e3
            IN  [s |-> SetSnd([s3 EXCEPT !.mem = mem4], i, e4), ret |-> marshall.ret]
    ELSE [s |-> s, ret |-> "NO_ERR"]
\* trdp_pdGet testing TRDP_TIMED_OUT before TRDP_INVALID_DATA
trdp_pdGet_timeoutFirst(s, e, unmarshall, pData, bufSize) ==
    LET nothing == [written |-> FALSE, out |-> <<>>, size |-> 0] IN
    IF HasFlag(e.privFlags, "TIMED_OUT")
    THEN [ret |-> "TIMEOUT_ERR"] @@ nothing
    ELSE IF HasFlag(e.privFlags, "INVALID_DATA")
    THEN [ret |-> "NODATA_ERR"] @@ nothing
    ELSE IF (pData.ptr # 0) /\ (bufSize >= e.dataSize)
    THEN [ ret |-> "NO_ERR", written |-> TRUE,
           out |-> Bytes(s.mem[e.pFrame].data, e.dataSize), size |-> e.dataSize ]
    ELSE [ret |-> "NO_ERR"] @@ nothing

\* trdp_pdGet on element e (of either queue), after getPkts has been
\* counted: the return code, the bytes copied out and the size written to
\* *pDataSize.  pData is the caller's buffer, bufSize is *pDataSize on entry
\* (-1 without pDataSize).  `written` tells whether the buffer and the size
\* were written.
trdp_pdGet(s, e, unmarshall, pData, bufSize) ==
    LET nothing == [written |-> FALSE, out |-> <<>>, size |-> 0] IN
    IF HasFlag(e.privFlags, "INVALID_DATA")
    THEN [ret |-> "NODATA_ERR"] @@ nothing
    ELSE IF HasFlag(e.privFlags, "TIMED_OUT")
    THEN [ret |-> "TIMEOUT_ERR"] @@ nothing
    ELSE IF (pData.ptr # 0) /\ (bufSize # -1)
    THEN
        IF ~HasFlag(e.pktFlags, "MARSHALL") \/ (unmarshall.fn = 0)
        THEN
            IF bufSize >= e.dataSize
            THEN [ ret |-> "NO_ERR", written |-> TRUE,
                   out |-> Bytes(s.mem[e.pFrame].data, e.dataSize),
                   size |-> e.dataSize ]
            ELSE [ret |-> "PARAM_ERR"] @@ nothing
        ELSE [ ret |-> unmarshall.ret, written |-> TRUE,
               out |-> unmarshall.out, size |-> Len(unmarshall.out) ]
    ELSE [ret |-> "NO_ERR"] @@ nothing

(***************************************************************************)
(* trdp_pdUpdate, trdp_pdSend, trdp_pdSendQueued                           *)
(***************************************************************************)
\* trdp_validTopoCounters: a counter blocks when it is nonzero on both
\* sides and the two values differ.
trdp_validTopoCounters(etbTopoCnt, opTrnTopoCnt, etbTopoCntFilter, opTrnTopoCntFilter) ==
    ~( (etbTopoCnt # 0 /\ etbTopoCntFilter # 0 /\ etbTopoCnt # etbTopoCntFilter)
       \/ (opTrnTopoCnt # 0 /\ opTrnTopoCntFilter # 0 /\ opTrnTopoCnt # opTrnTopoCntFilter) )

\* trdp_releaseSocket: one user less on the socket; the last one closes it.
trdp_releaseSocket(iface, idx) ==
    IF idx = TRDP_INVALID_SOCKET_INDEX THEN iface
    ELSE [iface EXCEPT ![idx] =
            IF @.usage <= 1 THEN [sock |-> -1, usage |-> 0]
            ELSE [@ EXCEPT !.usage = @ - 1]]

\* trdp_queueDelElement
trdp_queueDelElement(q, i) == [k \in 1..(Len(q) - 1) |-> IF k < i THEN q[k] ELSE q[k + 1]]

\* trdp_pdUpdate, mutated: the pull counter is written but not incremented.
trdp_pdUpdate_pullNotCounted(s, i) ==
    LET e == s.pSndQueue[i]
        isPP == FrameHead(s, e).msgType = TRDP_MSG_PP
        e1 == IF isPP THEN e ELSE [e EXCEPT !.curSeqCnt = U32Add(@, U32(1))]
        h1 == [FrameHead(s, e) EXCEPT !.sequenceCounter =
                    IF isPP THEN e1.curSeqCnt4Pull ELSE e1.curSeqCnt]
    IN  SetSnd([s EXCEPT !.mem[e.pFrame].frameHead = WithFCS(h1)], i, e1)

\* trdp_pdUpdate on the element at position i of the send queue: the counter
\* of the frame's message type is incremented and written to the header,
\* then the FCS is recomputed.
trdp_pdUpdate(s, i) ==
    LET e == s.pSndQueue[i]
        isPP == FrameHead(s, e).msgType = TRDP_MSG_PP
        e1 == IF isPP
              THEN [e EXCEPT !.curSeqCnt4Pull = U32Add(@, U32(1))]
              ELSE [e EXCEPT !.curSeqCnt = U32Add(@, U32(1))]
        h1 == [FrameHead(s, e) EXCEPT !.sequenceCounter =
                    IF isPP THEN e1.curSeqCnt4Pull ELSE e1.curSeqCnt]
    IN  SetSnd([s EXCEPT !.mem[e.pFrame].frameHead = WithFCS(h1)], i, e1)

\* The validity test, mutated: an element without payload counts as
\* invalid.
HasValidData_needsPayload(e) == ~HasFlag(e.privFlags, "INVALID_DATA") /\ e.dataSize # 0

\* The validity test, mutated: every element counts as valid.
HasValidData_always(e) == TRUE

\* "send only if there is valid data" (line 312)
HasValidData(e) == ~HasFlag(e.privFlags, "INVALID_DATA")

\* SendEligible without the test that the interval is set
SendEligible_intervalIgnored(e, t) ==
    ~(e.timeToGo > t) \/ HasFlag(e.privFlags, "REQ_2B_SENT")

\* Is the element due in this pass (lines 307-309)?
SendEligible(e, t) ==
    ((e.interval # 0) /\ ~(e.timeToGo > t)) \/ HasFlag(e.privFlags, "REQ_2B_SENT")

\* NextTimeToGo without the correction for a delay of more than one
\* interval
NextTimeToGo_noSnap(e, t) == e.timeToGo + e.interval

\* The timer advance for a due cyclic element (lines 389-396).
NextTimeToGo(e, t) ==
    IF e.timeToGo + e.interval <= t THEN t + e.interval ELSE e.timeToGo + e.interval

\* trdp_pdSend: the destination is the pull address, once, if one is set.
\* ioFail tells whether vos_sockSendUDP fails or sends short.
trdp_pdSend(s, i, ioFail) ==
    LET e == s.pSndQueue[i]
        destIp == IF e.pullIpAddress # 0 THEN e.pullIpAddress ELSE e.addr.destIpAddr
        e1 == [e EXCEPT !.pullIpAddress = 0, !.sendSize = e.grossSize]
    IN  [ s |-> SetSnd(s, i, e1),
          frame |-> [ elt |-> e.id, sock |-> s.iface[e.socketIdx].sock,
                      destIp |-> destIp, size |-> e.grossSize,
                      head |-> FrameHead(s, e),
                      data |-> Bytes(s.mem[e.pFrame].data,
                                     e.grossSize - TRDP_MIN_PD_HEADER_SIZE) ],
          ret |-> IF ioFail THEN "IO_ERR" ELSE "NO_ERR" ]

\* The PdInfo handed to the publisher's callback (lines 344-362), with the
\* data pointer (the frame whose payload is passed) and the data size.
SendCallback(s, e, err) ==
    [ elt |-> e.id, side |-> "pub",
      comId |-> e.addr.comId, srcIpAddr |-> e.addr.srcIpAddr,
      destIpAddr |-> e.addr.destIpAddr,
      etbTopoCnt |-> FrameHead(s, e).etbTopoCnt,
      opTrnTopoCnt |-> FrameHead(s, e).opTrnTopoCnt,
      msgType |-> FrameHead(s, e).msgType,
      seqCount |-> e.curSeqCnt,
      protVersion |-> FrameHead(s, e).protocolVersion,
      replyComId |-> FrameHead(s, e).replyComId,
      replyIpAddr |-> FrameHead(s, e).replyIpAddress,
      resultCode |-> err,
      pData |-> e.pFrame,
      dataSize |-> FrameHead(s, e).datasetLength ]

\* SendUpdated sending a redundant follower like any other element
SendUpdated_redundantSent(s2, i, ioFail, acc) ==
    LET e2 == s2.pSndQueue[i]
        h2 == FrameHead(s2, e2)
    IN
    IF ~trdp_validTopoCounters(s2.etbTopoCnt, s2.opTrnTopoCnt, h2.etbTopoCnt, h2.opTrnTopoCnt)
    THEN [s |-> s2, acc |-> [acc EXCEPT !.err = "TOPO_ERR"]]
    ELSE IF e2.socketIdx = TRDP_INVALID_SOCKET_INDEX
    THEN [s |-> s2, acc |-> acc]
    ELSE
        LET cbs == IF e2.pfCbFunction # "NULL"
                   THEN Append(acc.cbs, SendCallback(s2, e2, acc.err))
                   ELSE acc.cbs
            r == trdp_pdSend(s2, i, ioFail)
        IN
        IF r.ret = "NO_ERR"
        THEN [ s |-> [r.s EXCEPT !.stats.numSend = @ + 1,
                                 !.pSndQueue[i].numRxTx = @ + 1],
               acc |-> [acc EXCEPT !.cbs = cbs, !.sent = Append(@, r.frame)] ]
        ELSE [ s |-> r.s,
               acc |-> [acc EXCEPT !.cbs = cbs, !.err = r.ret,
                                   !.failed = Append(@, r.frame)] ]

\* SendUpdated without the publisher's topology check
SendUpdated_topoIgnored(s2, i, ioFail, acc) ==
    LET e2 == s2.pSndQueue[i] IN
    IF e2.socketIdx = TRDP_INVALID_SOCKET_INDEX \/ HasFlag(e2.privFlags, "REDUNDANT")
    THEN [s |-> s2, acc |-> acc]
    ELSE
        LET cbs == IF e2.pfCbFunction # "NULL"
                   THEN Append(acc.cbs, SendCallback(s2, e2, acc.err))
                   ELSE acc.cbs
            r == trdp_pdSend(s2, i, ioFail)
        IN
        IF r.ret = "NO_ERR"
        THEN [ s |-> [r.s EXCEPT !.stats.numSend = @ + 1,
                                 !.pSndQueue[i].numRxTx = @ + 1],
               acc |-> [acc EXCEPT !.cbs = cbs, !.sent = Append(@, r.frame)] ]
        ELSE [ s |-> r.s,
               acc |-> [acc EXCEPT !.cbs = cbs, !.err = r.ret,
                                   !.failed = Append(@, r.frame)] ]

\* A due element with valid data, once its header is updated (lines
\* 324-375): the topology check, the callback and the send.  The result:
\* the state and the outputs of the pass so far.
SendUpdated(s2, i, ioFail, acc) ==
    LET e2 == s2.pSndQueue[i]
        h2 == FrameHead(s2, e2)
    IN
    IF ~trdp_validTopoCounters(s2.etbTopoCnt, s2.opTrnTopoCnt, h2.etbTopoCnt, h2.opTrnTopoCnt)
    THEN [s |-> s2, acc |-> [acc EXCEPT !.err = "TOPO_ERR"]]
    ELSE IF e2.socketIdx = TRDP_INVALID_SOCKET_INDEX
    THEN [s |-> s2, acc |-> acc]
    ELSE IF ~HasFlag(e2.privFlags, "REDUNDANT")
    THEN
        LET cbs == IF e2.pfCbFunction # "NULL"
                   THEN Append(acc.cbs, SendCallback(s2, e2, acc.err))
                   ELSE acc.cbs
            r == trdp_pdSend(s2, i, ioFail)
        IN
        IF r.ret = "NO_ERR"
        THEN [ s |-> [r.s EXCEPT !.stats.numSend = @ + 1,
                                 !.pSndQueue[i].numRxTx = @ + 1],
               acc |-> [acc EXCEPT !.cbs = cbs, !.sent = Append(@, r.frame)] ]
        ELSE [ s |-> r.s,
               acc |-> [acc EXCEPT !.cbs = cbs, !.err = r.ret,
                                   !.failed = Append(@, r.frame)] ]
    ELSE [s |-> s2, acc |-> acc]

\* The body of the loop for a due element with valid data (lines 314-375):
\* a requested PD frame leaves as PP, the header is updated, then the
\* frame is sent.
SendValid(s, i, ioFail, acc) ==
    SendUpdated(
        trdp_pdUpdate(
            IF HasFlag(s.pSndQueue[i].privFlags, "REQ_2B_SENT")
               /\ FrameHead(s, s.pSndQueue[i]).msgType = TRDP_MSG_PD
            THEN [s EXCEPT !.mem[s.pSndQueue[i].pFrame].frameHead.msgType = TRDP_MSG_PP]
            ELSE s,
            i),
        i, ioFail, acc)

\* The rest of the loop body, mutated: the request flag of a pull reply
\* stays set.
SendAdvance_requestKept(s, i, t) ==
    LET e == s.pSndQueue[i] IN
    IF HasFlag(e.privFlags, "REQ_2B_SENT") /\ FrameHead(s, e).msgType = TRDP_MSG_PP
    THEN [s EXCEPT !.mem[e.pFrame].frameHead.msgType = TRDP_MSG_PD]
    ELSE IF e.interval # 0
    THEN [s EXCEPT !.pSndQueue[i].timeToGo = NextTimeToGo(e, t),
                   !.pSndQueue[i].privFlags = @ \ {"REQ_2B_SENT"}]
    ELSE [s EXCEPT !.pSndQueue[i].privFlags = @ \ {"REQ_2B_SENT"}]

\* The rest of the loop body for a due element (lines 378-400): the message
\* type of a pull reply is restored, else the timer advances; the request
\* flag is cleared.
SendAdvance(s, i, t) ==
    LET e == s.pSndQueue[i] IN
    IF HasFlag(e.privFlags, "REQ_2B_SENT") /\ FrameHead(s, e).msgType = TRDP_MSG_PP
    THEN [s EXCEPT !.mem[e.pFrame].frameHead.msgType = TRDP_MSG_PD,
                   !.pSndQueue[i].privFlags = @ \ {"REQ_2B_SENT"}]
    ELSE IF e.interval # 0
    THEN [s EXCEPT !.pSndQueue[i].timeToGo = NextTimeToGo(e, t),
                   !.pSndQueue[i].privFlags = @ \ {"REQ_2B_SENT"}]
    ELSE [s EXCEPT !.pSndQueue[i].privFlags = @ \ {"REQ_2B_SENT"}]

\* Removal of a one-shot request element (lines 403-423).
SendRemove(s, i) ==
    LET e == s.pSndQueue[i] IN
    [s EXCEPT !.iface = trdp_releaseSocket(@, e.socketIdx),
              !.pSndQueue = trdp_queueDelElement(@, i),
              !.mem = vos_memFree(@, e.pFrame)]

\* The end of an iteration (lines 403-426): a request element is removed,
\* else the loop goes on with the next element.
SendNext(s2, i, acc) ==
    IF FrameHead(s2, s2.pSndQueue[i]).msgType = TRDP_MSG_PR
    THEN [ s |-> SendRemove(s2, i), i |-> i,
           acc |-> [acc EXCEPT !.removed = Append(@, [s2.pSndQueue[i] EXCEPT !.magic = 0])] ]
    ELSE [s |-> s2, i |-> i + 1, acc |-> acc]

SendDone(r1, i, t) == SendNext(SendAdvance(r1.s, i, t), i, r1.acc)

\* One iteration of the loop over the send queue (lines 303-426) at
\* position i: the state, the outputs and the position of the next element.
SendStep(s, i, t, ioFail, acc) ==
    IF ~SendEligible(s.pSndQueue[i], t) THEN [s |-> s, i |-> i + 1, acc |-> acc]
    ELSE SendDone(IF HasValidData(s.pSndQueue[i])
                  THEN SendValid(s, i, s.pSndQueue[i].id \in ioFail, acc)
                  ELSE [s |-> s, acc |-> acc],
                  i, t)

RECURSIVE SendLoop(_, _, _)

\* SendLoop leaving the queue at the first error
SendLoop_stopOnError(x, t, ioFail) ==
    IF (x.i > Len(x.s.pSndQueue)) \/ (x.acc.err # "NO_ERR") THEN x
    ELSE SendLoop(SendStep(x.s, x.i, t, ioFail, x.acc), t, ioFail)

\* The loop over the send queue (lines 297-427).
SendLoop(x, t, ioFail) ==
    IF x.i > Len(x.s.pSndQueue) THEN x
    ELSE SendLoop(SendStep(x.s, x.i, t, ioFail, x.acc), t, ioFail)

NoOutput == [err |-> "NO_ERR", sent |-> <<>>, failed |-> <<>>, cbs |-> <<>>, removed |-> <<>>]

SendResult(x) ==
    [ s |-> x.s, err |-> x.acc.err, sent |-> x.acc.sent, failed |-> x.acc.failed,
      cbs |-> x.acc.cbs, removed |-> x.acc.removed ]

\* trdp_pdSendQueued at time t; ioFail is the set of elements whose
\* transport send fails in this pass.  The result: the session, the error
\* returned, the frames handed to the transport, the callbacks made and the
\* elements destroyed.
trdp_pdSendQueued(s, t, ioFail) ==
    SendResult(SendLoop([s |-> [s EXCEPT !.nextJob = 0], i |-> 1, acc |-> NoOutput], t, ioFail))

(***************************************************************************)
(* Queue search and per-source sequence counters (trdp_utils)              *)
(***************************************************************************)
\* Capacity of an element's per-source list.
MaxSeqCntEntries == 2

\* trdp_queueFindComId: position of the first element with the comId, or 0.
trdp_queueFindComId(q, comId) ==
    IF \E k \in 1..Len(q) : q[k].addr.comId = comId
    THEN CHOOSE k \in 1..Len(q) :
            /\ q[k].addr.comId = comId
            /\ \A j \in 1..(k - 1) : q[j].addr.comId # comId
    ELSE 0

\* Does subscriber e match the addresses of a received frame?
SubMatches(e, addr) ==
    /\ e.addr.comId = addr.comId
    /\ (e.addr.srcIpAddr = 0 \/ e.addr.srcIpAddr = addr.srcIpAddr)
    /\ (e.addr.destIpAddr = 0 \/ e.addr.destIpAddr = addr.destIpAddr)

\* trdp_queueFindSubAddr: position of the first matching subscriber, or 0.
trdp_queueFindSubAddr(q, addr) ==
    IF \E k \in 1..Len(q) : SubMatches(q[k], addr)
    THEN CHOOSE k \in 1..Len(q) :
            /\ SubMatches(q[k], addr)
            /\ \A j \in 1..(k - 1) : ~SubMatches(q[j], addr)
    ELSE 0

SeqEntry(list, srcIP, msgType) ==
    IF \E k \in 1..Len(list) : list[k].srcIpAddr = srcIP /\ list[k].msgType = msgType
    THEN CHOOSE k \in 1..Len(list) : list[k].srcIpAddr = srcIP /\ list[k].msgType = msgType
    ELSE 0

\* trdp_resetSequenceCounter: the entry of the source, if any, is cleared.
trdp_resetSequenceCounter(list, srcIP, msgType) ==
    LET k == SeqEntry(list, srcIP, msgType) IN
    IF k = 0 THEN list ELSE [list EXCEPT ![k].lastSeqCnt = U32(0)]

\* trdp_checkSequenceCounter: 0 and the counter recorded when it is newer
\* than the last one of the source (or the source is new or was reset),
\* 1 for a duplicate or older counter, -1 when the list is full.
trdp_checkSequenceCounter(list, sequenceCounter, srcIP, msgType) ==
    LET k == SeqEntry(list, srcIP, msgType) IN
    IF k # 0
    THEN IF list[k].lastSeqCnt = U32(0) \/ U32Gt(sequenceCounter, list[k].lastSeqCnt)
         THEN [ret |-> 0, list |-> [list EXCEPT ![k].lastSeqCnt = sequenceCounter]]
         ELSE [ret |-> 1, list |-> list]
    ELSE IF Len(list) >= MaxSeqCntEntries
    THEN [ret |-> -1, list |-> list]
    ELSE [ ret |-> 0,
           list |-> Append(list, [srcIpAddr |-> srcIP, msgType |-> msgType,
                                  lastSeqCnt |-> sequenceCounter]) ]

(***************************************************************************)
(* trdp_pdInit, trdp_pdReceive                                             *)
(***************************************************************************)
\* trdp_pdInit on the element at position i of the send queue.
trdp_pdInit(s, i, type, etbTopoCnt, opTrnTopoCnt, replyComId, replyIpAddress) ==
    LET e == s.pSndQueue[i] IN
    IF e.pFrame = 0 THEN s
    ELSE [s EXCEPT !.mem[e.pFrame].frameHead =
            [@ EXCEPT !.protocolVersion = TRDP_PROTO_VER,
                      !.etbTopoCnt = etbTopoCnt,
                      !.opTrnTopoCnt = opTrnTopoCnt,
                      !.comId = e.addr.comId,
                      !.msgType = type,
                      !.datasetLength = e.dataSize,
                      !.reserved = 0,
                      !.replyComId = replyComId,
                      !.replyIpAddress = replyIpAddress]]

\* trdp_pdPrepareStats: the payload of the statistics element becomes a
\* snapshot of the session's PD counters.
trdp_pdPrepareStats(s, i) ==
    LET e == s.pSndQueue[i]
        snap == << s.stats.numRcv, s.stats.numCrcErr, s.stats.numProtErr,
                   s.stats.numTopoErr, s.stats.numTimeout, s.stats.numSend >>
    IN  [s EXCEPT !.mem[e.pFrame].data = memcpy(@, Bytes(snap, e.dataSize), e.dataSize)]

\* vos_sockReceiveUDP into the scratch frame: the header and the payload
\* bytes received replace the head of the buffer.  A datagram shorter than
\* a header is dropped by the size check before any field is read.
ReceiveRead(s, rx) ==
    IF rx.size < TRDP_MIN_PD_HEADER_SIZE THEN s
    ELSE [s EXCEPT !.mem[s.pNewFrame] =
            [@ EXCEPT !.frameHead = rx.head,
                      !.data = memcpy(@, rx.data, Len(rx.data))]]

\* The miss count, mutated: the wrap branch counts from 2^32, not from
\* UINT32_MAX.
MissedDelta_wrapOffByOne(curSeqCnt, newSeqCnt) ==
    IF U32Gt(newSeqCnt, U32(0)) /\ U32Gt(newSeqCnt, U32Add(curSeqCnt, U32(1)))
    THEN U32Sub(U32Sub(newSeqCnt, curSeqCnt), U32(1))
    ELSE IF U32Gt(curSeqCnt, newSeqCnt)
    THEN U32Add(U32Add(U32Sub(UINT32_MAX, curSeqCnt), newSeqCnt), U32(1))
    ELSE U32(0)

\* The miss count added for a frame with counter newSeqCnt (lines 621-628).
MissedDelta(curSeqCnt, newSeqCnt) ==
    IF U32Gt(newSeqCnt, U32(0)) /\ U32Gt(newSeqCnt, U32Add(curSeqCnt, U32(1)))
    THEN U32Sub(U32Sub(newSeqCnt, curSeqCnt), U32(1))
    ELSE IF U32Gt(curSeqCnt, newSeqCnt)
    THEN U32Add(U32Sub(UINT32_MAX, curSeqCnt), newSeqCnt)
    ELSE U32(0)

\* Change detection, mutated: every accepted frame counts as changed.
DataChanged_always(e, newData, oldData) == HasFlag(e.pktFlags, "CALLBACK")

\* Change detection, mutated: a pending timeout does not notify.
DataChanged_timeoutIgnored(e, newData, oldData) ==
    /\ HasFlag(e.pktFlags, "CALLBACK")
    /\ \/ HasFlag(e.pktFlags, "FORCE_CB")
       \/ memcmpDiffers(newData, oldData, e.dataSize)

\* "Has the data changed?" (lines 638-651): does the accepted frame
\* notify the user?  e is the subscriber before its flags are reset.
DataChanged(e, newData, oldData) ==
    /\ HasFlag(e.pktFlags, "CALLBACK")
    /\ \/ HasFlag(e.pktFlags, "FORCE_CB")
       \/ HasFlag(e.privFlags, "TIMED_OUT")
       \/ memcmpDiffers(newData, oldData, e.dataSize)

\* The statistics request (lines 514-532): the statistics publisher is
\* addressed to the reply address, its header initialised as a PP frame and
\* its payload prepared.
PullStats(s, k, h) ==
    trdp_pdPrepareStats(
        trdp_pdInit([s EXCEPT !.pSndQueue[k].addr.comId = TRDP_GLOBAL_STATISTICS_COMID,
                              !.pSndQueue[k].addr.destIpAddr = h.replyIpAddress],
                    k, TRDP_MSG_PP, s.etbTopoCnt, s.opTrnTopoCnt, 0, 0),
        k)

\* The pulled publisher is marked (lines 551-563).
PullMark(s, k, h, srcIpAddr) ==
    [s EXCEPT !.pSndQueue[k].pullIpAddress =
                    IF h.replyIpAddress # 0 THEN h.replyIpAddress ELSE srcIpAddr,
              !.pSndQueue[k].privFlags = @ \cup {"REQ_2B_SENT"}]

\* A lookup of the pulled publisher that ignores the replyComId of the
\* request.
PulledPublisher_byComId(s, h) ==
    IF h.comId = TRDP_STATISTICS_PULL_COMID
    THEN trdp_queueFindComId(s.pSndQueue, TRDP_GLOBAL_STATISTICS_COMID)
    ELSE trdp_queueFindComId(s.pSndQueue, h.comId)

\* The publisher a pull request asks for (lines 514-549): its position in
\* the send queue, or 0.
PulledPublisher(s, h) ==
    IF h.comId = TRDP_STATISTICS_PULL_COMID
    THEN trdp_queueFindComId(s.pSndQueue, TRDP_GLOBAL_STATISTICS_COMID)
    ELSE trdp_queueFindComId(s.pSndQueue, IF h.replyComId = 0 THEN h.comId ELSE h.replyComId)

\* The pull request branch (lines 510-568): the pulled publisher at
\* position k is marked and sent at once.  The result is that of the send
\* pass, with `pulled` telling whether a publisher was found.
ReceivePull(s, k, t, h, srcIpAddr, ioFail) ==
    IF k = 0
    THEN [s |-> s, pulled |-> FALSE] @@ NoOutput
    ELSE [pulled |-> TRUE]
         @@ trdp_pdSendQueued(
                PullMark(IF h.comId = TRDP_STATISTICS_PULL_COMID THEN PullStats(s, k, h) ELSE s,
                         k, h, srcIpAddr),
                t, ioFail)

\* The PdInfo handed to the subscriber's callback (lines 691-709).
ReceiveCallback(s, e, destIpAddr, err) ==
    [ elt |-> e.id, side |-> "sub",
      comId |-> e.addr.comId, srcIpAddr |-> e.lastSrcIP,
      destIpAddr |-> destIpAddr,
      etbTopoCnt |-> FrameHead(s, e).etbTopoCnt,
      opTrnTopoCnt |-> FrameHead(s, e).opTrnTopoCnt,
      msgType |-> FrameHead(s, e).msgType,
      seqCount |-> e.curSeqCnt,
      protVersion |-> FrameHead(s, e).protocolVersion,
      replyComId |-> FrameHead(s, e).replyComId,
      replyIpAddr |-> FrameHead(s, e).replyIpAddress,
      resultCode |-> err,
      pData |-> e.pFrame,
      dataSize |-> FrameHead(s, e).datasetLength ]

\* ReceiveAccept handing pNewFrame to the subscriber without taking the
\* subscriber's buffer in exchange
ReceiveAccept_shared(s, k, t, e, h, srcIpAddr) ==
    LET e1 == [e EXCEPT !.numMissed = U32Add(@, MissedDelta(e.curSeqCnt, h.sequenceCounter)),
                        !.curSeqCnt = h.sequenceCounter,
                        !.dataSize = h.datasetLength,
                        !.grossSize = trdp_packetSizePD(h.datasetLength),
                        !.timeToGo = t + e.interval,
                        !.numRxTx = @ + 1,
                        !.lastErr = "NO_ERR",
                        !.privFlags = @ \ {"TIMED_OUT", "INVALID_DATA"},
                        !.pFrame = s.pNewFrame]
    IN  SetRcv(s, k, e1)

\* Taking over, mutated: the frame is copied into the subscriber's buffer
\* instead of the buffers being exchanged.
ReceiveAccept_copied(s, k, t, e, h, srcIpAddr) ==
    LET e1 == [e EXCEPT !.numMissed = U32Add(@, MissedDelta(e.curSeqCnt, h.sequenceCounter)),
                        !.curSeqCnt = h.sequenceCounter,
                        !.dataSize = h.datasetLength,
                        !.grossSize = trdp_packetSizePD(h.datasetLength),
                        !.timeToGo = t + e.interval,
                        !.numRxTx = @ + 1,
                        !.lastErr = "NO_ERR",
                        !.privFlags = @ \ {"TIMED_OUT", "INVALID_DATA"}]
    IN  SetRcv([s EXCEPT !.mem[e.pFrame] = s.mem[s.pNewFrame]], k, e1)

\* The frame is taken over by the subscriber at position k (lines 621-673).
ReceiveAccept(s, k, t, e, h, srcIpAddr) ==
    LET e1 == [e EXCEPT !.numMissed = U32Add(@, MissedDelta(e.curSeqCnt, h.sequenceCounter)),
                        !.curSeqCnt = h.sequenceCounter,
                        !.dataSize = h.datasetLength,
                        !.grossSize = trdp_packetSizePD(h.datasetLength),
                        !.timeToGo = t + e.interval,
                        !.numRxTx = @ + 1,
                        !.lastErr = "NO_ERR",
                        !.privFlags = @ \ {"TIMED_OUT", "INVALID_DATA"},
                        !.pFrame = s.pNewFrame]
    IN  SetRcv([s EXCEPT !.pNewFrame = e.pFrame], k, e1)

\* The outputs of the send pass a pull request triggered.
PullOutputs(p) == [sent |-> p.sent, failed |-> p.failed, cbs |-> p.cbs, removed |-> p.removed]

\* The frame is new for subscriber k (lines 621-711): it is taken over and
\* the user is told if asked for.  s4, e2: the session and the subscriber
\* with the sequence list updated; p: the result of the pull branch.
ReceiveNew(s4, k, t, e2, rx, p, s5) ==
    LET informUser == p.pulled
                      \/ DataChanged([e2 EXCEPT !.dataSize = rx.head.datasetLength],
                                     s4.mem[s4.pNewFrame].data, s4.mem[e2.pFrame].data)
        e5 == s5.pRcvQueue[k]
        cb == IF informUser /\ HasFlag(e5.pktFlags, "CALLBACK") /\ e5.pfCbFunction # "NULL"
              THEN <<ReceiveCallback(s5, e5, rx.destIpAddr, "NO_ERR")>>
              ELSE <<>>
    IN  [s |-> s5, err |-> "NO_ERR", accepted |-> k, matched |-> k]
        @@ [PullOutputs(p) EXCEPT !.cbs = @ \o cb]

\* A receive path that takes a frame over whatever the sequence check says.
ReceiveSeq_unchecked(s4, k, t, e2, rx, p, ret) ==
    ReceiveNew(s4, k, t, e2, rx, p, ReceiveAccept(s4, k, t, e2, rx.head, rx.srcIpAddr))

\* The sequence counter was checked with result c (lines 606-619).
ReceiveSeq(s4, k, t, e2, rx, p, ret) ==
    IF ret = -1
    THEN [s |-> s4, err |-> "MEM_ERR", accepted |-> 0, matched |-> k] @@ PullOutputs(p)
    ELSE IF ret = 1
    THEN [s |-> s4, err |-> "NO_ERR", accepted |-> 0, matched |-> k] @@ PullOutputs(p)
    ELSE ReceiveNew(s4, k, t, e2, rx, p, ReceiveAccept(s4, k, t, e2, rx.head, rx.srcIpAddr))

\* The source and the sequence counter of the frame are recorded with the
\* subscriber (lines 594-619); c is the result of the sequence check.
ReceiveChecked(s3, k, t, e1, rx, p, c) ==
    ReceiveSeq(SetRcv(s3, k, [e1 EXCEPT !.pSeqCntList = c.list]), k, t,
               [e1 EXCEPT !.pSeqCntList = c.list], rx, p, c.ret)

\* The frame passed the subscriber's topology gate (lines 592-619).
ReceiveGated(s3, k, t, e1, rx, p) ==
    ReceiveChecked(s3, k, t, e1, rx, p,
        trdp_checkSequenceCounter(
            IF rx.head.sequenceCounter = U32(0)
            THEN trdp_resetSequenceCounter(e1.pSeqCntList, rx.srcIpAddr, rx.head.msgType)
            ELSE e1.pSeqCntList,
            rx.head.sequenceCounter, rx.srcIpAddr, rx.head.msgType))

\* The frame failed the subscriber's topology gate (lines 675-711).
ReceiveTopoErr(s4, k, rx, p) ==
    LET e4 == s4.pRcvQueue[k]
        cb == IF HasFlag(e4.pktFlags, "CALLBACK") /\ e4.pfCbFunction # "NULL"
              THEN <<ReceiveCallback(s4, e4, rx.destIpAddr, "TOPO_ERR")>>
              ELSE <<>>
    IN  [s |-> s4, err |-> "TOPO_ERR", accepted |-> 0, matched |-> k]
        @@ [PullOutputs(p) EXCEPT !.cbs = @ \o cb]

\* A subscriber path without the topology gate of the subscriber.
ReceiveFor_ungated(s3, k, t, rx, p) ==
    IF k = 0
    THEN [s |-> s3, err |-> "NOSUB_ERR", accepted |-> 0, matched |-> 0] @@ PullOutputs(p)
    ELSE ReceiveGated(s3, k, t,
                      [s3.pRcvQueue[k] EXCEPT !.lastSrcIP = rx.srcIpAddr,
                                              !.addr.destIpAddr = rx.destIpAddr],
                      rx, p)

\* The subscriber of the frame is at position k, or there is none (k = 0)
\* (lines 571-590).
ReceiveFor(s3, k, t, rx, p) ==
    IF k = 0
    THEN [s |-> s3, err |-> "NOSUB_ERR", accepted |-> 0, matched |-> 0] @@ PullOutputs(p)
    ELSE IF ((rx.head.etbTopoCnt = 0) /\ (rx.head.opTrnTopoCnt = 0))
            \/ trdp_validTopoCounters(rx.head.etbTopoCnt, rx.head.opTrnTopoCnt,
                                      s3.pRcvQueue[k].addr.etbTopoCnt,
                                      s3.pRcvQueue[k].addr.opTrnTopoCnt)
    THEN ReceiveGated(s3, k, t,
                      [s3.pRcvQueue[k] EXCEPT !.lastSrcIP = rx.srcIpAddr,
                                              !.addr.destIpAddr = rx.destIpAddr],
                      rx, p)
    ELSE ReceiveTopoErr([s3 EXCEPT !.stats.numTopoErr = @ + 1,
                                   !.pRcvQueue[k].lastErr = "TOPO_ERR"],
                        k, rx, p)

\* The addresses a subscriber is looked up with (lines 571-577).
SubAddresses(rx) ==
    [ comId |-> rx.head.comId, etbTopoCnt |-> rx.head.etbTopoCnt,
      opTrnTopoCnt |-> rx.head.opTrnTopoCnt,
      srcIpAddr |-> rx.srcIpAddr, destIpAddr |-> rx.destIpAddr ]

\* After the pull branch with result p: the subscriber is looked up.
ReceivePulled(t, rx, p) ==
    ReceiveFor(p.s, trdp_queueFindSubAddr(p.s.pRcvQueue, SubAddresses(rx)), t, rx, p)

\* A receive path that answers pull requests and matches subscribers
\* before the topology counters of the session are compared.
ReceiveCounted_ungated(s2, t, rx, ioFail) ==
    ReceivePulled(t, rx,
        IF rx.head.msgType = TRDP_MSG_PR
        THEN ReceivePull(s2, PulledPublisher(s2, rx.head), t, rx.head, rx.srcIpAddr, ioFail)
        ELSE [s |-> s2, pulled |-> FALSE] @@ NoOutput)

\* The frame passed the header check and is counted (lines 493-568).
ReceiveCounted(s2, t, rx, ioFail) ==
    IF ~trdp_validTopoCounters(s2.etbTopoCnt, s2.opTrnTopoCnt,
                               rx.head.etbTopoCnt, rx.head.opTrnTopoCnt)
    THEN [s |-> [s2 EXCEPT !.stats.numTopoErr = @ + 1], err |-> "TOPO_ERR",
          accepted |-> 0, matched |-> 0] @@ NoOutput
    ELSE ReceivePulled(t, rx,
            IF rx.head.msgType = TRDP_MSG_PR
            THEN ReceivePull(s2, PulledPublisher(s2, rx.head), t, rx.head, rx.srcIpAddr, ioFail)
            ELSE [s |-> s2, pulled |-> FALSE] @@ NoOutput)

\* A receive path that counts every frame read as received, whatever the
\* header check says.
ReceiveHeader_allReceived(s1, t, rx, ioFail, chk) ==
    IF chk = "CRC_ERR"
    THEN [s |-> [s1 EXCEPT !.stats.numCrcErr = @ + 1, !.stats.numRcv = @ + 1],
          err |-> chk, accepted |-> 0, matched |-> 0] @@ NoOutput
    ELSE IF chk = "WIRE_ERR"
    THEN [s |-> [s1 EXCEPT !.stats.numProtErr = @ + 1, !.stats.numRcv = @ + 1],
          err |-> chk, accepted |-> 0, matched |-> 0] @@ NoOutput
    ELSE ReceiveCounted([s1 EXCEPT !.stats.numRcv = @ + 1], t, rx, ioFail)

\* The frame is in the scratch buffer (lines 474-490); chk is the result of
\* the header check.
ReceiveHeader(s1, t, rx, ioFail, chk) ==
    IF chk = "CRC_ERR"
    THEN [s |-> [s1 EXCEPT !.stats.numCrcErr = @ + 1], err |-> chk,
          accepted |-> 0, matched |-> 0] @@ NoOutput
    ELSE IF chk = "WIRE_ERR"
    THEN [s |-> [s1 EXCEPT !.stats.numProtErr = @ + 1], err |-> chk,
          accepted |-> 0, matched |-> 0] @@ NoOutput
    ELSE ReceiveCounted([s1 EXCEPT !.stats.numRcv = @ + 1], t, rx, ioFail)

\* trdp_pdReceive at time t.  rx is the datagram read from the socket
\* (err: the result of vos_sockReceiveUDP, head, data: the header and the
\* payload bytes received, size: the number of bytes received, srcIpAddr,
\* destIpAddr), ioFail the sends failing in the pass a pull request
\* triggers.  The result: the session, the error returned, the frames sent
\* and the callbacks made, and the position of the subscriber whose frame
\* was exchanged (accepted, 0 if none).
trdp_pdReceive(s, t, rx, ioFail) ==
    IF rx.err # "NO_ERR"
    THEN [s |-> s, err |-> rx.err, accepted |-> 0, matched |-> 0] @@ NoOutput
    ELSE ReceiveHeader(ReceiveRead(s, rx), t, rx, ioFail, trdp_pdCheck(rx.head, rx.size))

(***************************************************************************)
(* trdp_pdHandleTimeOuts                                                   *)
(***************************************************************************)
\* The lateness test, mutated: the TIMED_OUT flag is not looked at.
IsLate_flagIgnored(e, t) ==
    /\ e.interval # 0
    /\ e.timeToGo # 0
    /\ ~(e.timeToGo > t)
    /\ e.addr.comId # TRDP_STATISTICS_PULL_COMID

\* Is the subscriber late and not yet flagged (lines 790-794)?
IsLate(e, t) ==
    /\ e.interval # 0
    /\ e.timeToGo # 0
    /\ ~(e.timeToGo > t)
    /\ ~HasFlag(e.privFlags, "TIMED_OUT")
    /\ e.addr.comId # TRDP_STATISTICS_PULL_COMID

\* The PdInfo of a timeout (lines 803-833).
TimeoutCallback(s, e) ==
    LET hasFrame == e.pFrame # 0
        h == IF hasFrame THEN FrameHead(s, e) ELSE NullHeader
    IN
    [ elt |-> e.id, side |-> "sub",
      comId |-> e.addr.comId, srcIpAddr |-> e.addr.srcIpAddr,
      destIpAddr |-> e.addr.destIpAddr,
      etbTopoCnt |-> h.etbTopoCnt, opTrnTopoCnt |-> h.opTrnTopoCnt,
      msgType |-> h.msgType, seqCount |-> h.sequenceCounter,
      protVersion |-> h.protocolVersion, replyComId |-> h.replyComId,
      replyIpAddr |-> h.replyIpAddress,
      resultCode |-> "TIMEOUT_ERR",
      pData |-> e.pFrame,
      dataSize |-> e.dataSize ]

\* One iteration of the loop over the receive queue (lines 785-841).
TimeOutStep(s, k, t, cbs) ==
    IF IsLate(s.pRcvQueue[k], t)
    THEN [ s |-> [s EXCEPT !.stats.numTimeout = @ + 1,
                           !.pRcvQueue[k].lastErr = "TIMEOUT_ERR",
                           !.pRcvQueue[k].privFlags = @ \cup {"TIMED_OUT"}],
           k |-> k + 1,
           cbs |-> IF s.pRcvQueue[k].pfCbFunction # "NULL"
                   THEN Append(cbs, TimeoutCallback(s, s.pRcvQueue[k]))
                   ELSE cbs ]
    ELSE [s |-> s, k |-> k + 1, cbs |-> cbs]

RECURSIVE TimeOutLoop(_, _)
TimeOutLoop(x, t) ==
    IF x.k > Len(x.s.pRcvQueue) THEN [s |-> x.s, cbs |-> x.cbs]
    ELSE TimeOutLoop(TimeOutStep(x.s, x.k, t, x.cbs), t)

\* trdp_pdHandleTimeOuts at time t: the session and the callbacks made.
trdp_pdHandleTimeOuts(s, t) == TimeOutLoop([s |-> s, k |-> 1, cbs |-> <<>>], t)

(***************************************************************************)
(* trdp_pdDistribute.  Times and intervals are counted in microseconds.    *)
(***************************************************************************)
\* The preset of deltaTmax: 1000 s (line 1069).
DeltaTmaxPreset == 1000000000

\* vos_divTime: a time divided by a count, rounded down.
vos_divTime(time, divisor) == time \div divisor

\* The positions of the cyclic elements of a queue (lines 1096-1097).
Cyclic(q) == {k \in 1..Len(q) : q[k].interval # 0}

\* The smallest interval of a cyclic element below the preset (lines
\* 1099-1102).
DeltaTmax(q) ==
    IF \E k \in Cyclic(q) : q[k].interval < DeltaTmaxPreset
    THEN CHOOSE d \in {q[k].interval : k \in Cyclic(q)} :
            \A k \in Cyclic(q) : d <= q[k].interval
    ELSE DeltaTmaxPreset

\* The largest timeToGo of a cyclic element (lines 1103-1106).
TNull(q) ==
    IF \E k \in Cyclic(q) : q[k].timeToGo > 0
    THEN CHOOSE m \in {q[k].timeToGo : k \in Cyclic(q)} :
            \A k \in Cyclic(q) : m >= q[k].timeToGo
    ELSE 0

\* The index of the element at position k among the cyclic elements.
PacketIndex(q, k) == Cardinality({j \in Cyclic(q) : j < k})

\* The send time of the cyclic element at position k (lines 1136-1158):
\* tNull plus its share of the jitter time dT, unless twice that share
\* exceeds its own interval.
Shaped(q, k, tNull, dT) ==
    IF 2 * (dT * PacketIndex(q, k)) > q[k].interval
    THEN q[k].timeToGo
    ELSE tNull + dT * PacketIndex(q, k)

\* trdp_pdDistribute on a send queue: the queue and the error returned.
trdp_pdDistribute(q) ==
    IF Len(q) = 0 THEN [q |-> q, ret |-> "PARAM_ERR"]
    ELSE IF Len(q) = 1 THEN [q |-> q, ret |-> "NO_ERR"]
    ELSE IF DeltaTmax(q) = 0 \/ Cardinality(Cyclic(q)) = 0 THEN [q |-> q, ret |-> "NO_ERR"]
    ELSE [ q |-> [ k \in 1..Len(q) |->
                    IF q[k].interval # 0
                    THEN [q[k] EXCEPT !.timeToGo =
                            Shaped(q, k, TNull(q),
                                   vos_divTime(DeltaTmax(q), Cardinality(Cyclic(q))))]
                    ELSE q[k] ],
           ret |-> "NO_ERR" ]

(***************************************************************************)
(* Construction of a session and its elements (tlc_openSession,            *)
(* tlp_publish, tlp_subscribe, tlp_request)                                *)
(***************************************************************************)
NoStats == [ numRcv |-> 0, numCrcErr |-> 0, numProtErr |-> 0, numTopoErr |-> 0,
             numTimeout |-> 0, numSend |-> 0 ]

\* A session with empty queues; its scratch frame holds a full packet.
OpenSession(etbTopoCnt, opTrnTopoCnt) ==
    [ pSndQueue |-> <<>>, pRcvQueue |-> <<>>,
      pNewFrame |-> 1,
      mem |-> [p \in {1} |-> NewFrame(TRDP_MAX_PD_DATA_SIZE)],
      etbTopoCnt |-> etbTopoCnt, opTrnTopoCnt |-> opTrnTopoCnt,
      stats |-> NoStats, nextJob |-> 0,
      iface |-> <<[sock |-> 3, usage |-> 0]>> ]

\* A queue element with its counters cleared.
NewElement(id, comId, srcIp, destIp, etbTopoCnt, opTrnTopoCnt, interval, pktFlags, cb) ==
    [ id |-> id,
      addr |-> [ comId |-> comId, srcIpAddr |-> srcIp, destIpAddr |-> destIp,
                 etbTopoCnt |-> etbTopoCnt, opTrnTopoCnt |-> opTrnTopoCnt ],
      pullIpAddress |-> 0, interval |-> interval, timeToGo |-> 0,
      privFlags |-> {"INVALID_DATA"}, pktFlags |-> pktFlags,
      pFrame |-> 0, dataSize |-> 0, grossSize |-> 0, sendSize |-> 0,
      curSeqCnt |-> U32(0), curSeqCnt4Pull |-> U32(0), pSeqCntList |-> <<>>,
      updPkts |-> 0, getPkts |-> 0, numRxTx |-> 0, numMissed |-> U32(0),
      lastErr |-> "NO_ERR", lastSrcIP |-> 0,
      socketIdx |-> 1, pfCbFunction |-> cb, magic |-> 1 ]

\* tlp_publish / tlp_request: the element gets a frame for dataSize bytes,
\* its header is initialised with the message type and it is appended to
\* the send queue; the socket gets one more user.
AddSend(s, e, type, dataSize, replyComId, replyIp, t) ==
    LET p == vos_memAlloc(s.mem)
        e1 == [e EXCEPT !.pFrame = p, !.dataSize = dataSize,
                        !.grossSize = trdp_packetSizePD(dataSize),
                        !.timeToGo = IF e.interval # 0 THEN t + e.interval ELSE 0]
        s1 == [s EXCEPT !.mem = MemPut(@, p, NewFrame(e1.grossSize - TRDP_MIN_PD_HEADER_SIZE)),
                        !.pSndQueue = Append(@, e1),
                        !.iface[e.socketIdx].usage = @ + 1]
    IN  trdp_pdInit(s1, Len(s1.pSndQueue), type, e.addr.etbTopoCnt, e.addr.opTrnTopoCnt,
                    replyComId, replyIp)

\* tlp_subscribe: the element gets a frame for a full packet and is
\* appended to the receive queue; its timeout is armed at t (0: not armed).
AddRecv(s, e, t) ==
    LET p == vos_memAlloc(s.mem)
        e1 == [e EXCEPT !.pFrame = p, !.dataSize = 0,
                        !.grossSize = TRDP_MAX_PD_PACKET_SIZE,
                        !.timeToGo = t]
    IN  [s EXCEPT !.mem = MemPut(@, p, NewFrame(TRDP_MAX_PD_DATA_SIZE)),
                  !.pRcvQueue = Append(@, e1),
                  !.iface[e.socketIdx].usage = @ + 1]

(***************************************************************************)
(* Specification SpecCheck: trdp_pdCheck on a header and a size            *)
(***************************************************************************)
CheckSizes ==
    { TRDP_MIN_PD_HEADER_SIZE - 1, TRDP_MIN_PD_HEADER_SIZE, TRDP_MIN_PD_HEADER_SIZE + 1,
      TRDP_MAX_PD_PACKET_SIZE, TRDP_MAX_PD_PACKET_SIZE + 1 }

\* 0x0100, 0x0101 (same under the mask), 0x0200, 0
CheckVersions == {TRDP_PROTO_VER, TRDP_PROTO_VER + 1, 2 * TRDP_PROTO_VER, 0}

CheckLengths ==
    {0, TRDP_MAX_PD_DATA_SIZE - 1, TRDP_MAX_PD_DATA_SIZE, TRDP_MAX_PD_DATA_SIZE + 1}

\* the four PD types, an MD type and 0
CheckTypes == {TRDP_MSG_PD, TRDP_MSG_PP, TRDP_MSG_PR, TRDP_MSG_PE, 19812, 0}

CheckInputs ==
    { [ head |-> [WithFCS([NullHeader EXCEPT !.protocolVersion = v, !.msgType = m,
                                             !.datasetLength = l, !.comId = 1])
                  EXCEPT !.frameCheckSum = @ + d],
        size |-> z ] :
      v \in CheckVersions, m \in CheckTypes, l \in CheckLengths,
      d \in {0, 1}, z \in CheckSizes }

InitCheck ==
    /\ sess = OpenSession(0, 0)
    /\ peer = OpenSession(0, 0)
    /\ wire = <<>>
    /\ now = 1
    /\ hist = <<>>
    /\ inp \in CheckInputs
    /\ last = [op |-> "init"]

DoCheck ==
    /\ last.op = "init"
    /\ last' = [op |-> "Check", ret |-> trdp_pdCheck(inp.head, inp.size)]
    /\ UNCHANGED <<sess, peer, wire, now, inp, hist>>

SpecCheck == InitCheck /\ [][DoCheck]_vars

\* C6: Check returns NoErr exactly when the size is within
\* [MIN_HEADER, MAX_PACKET], the FCS matches, the masked version is the
\* engine's, datasetLength <= 1432 and the type is one of PD, PP, PR, PE;
\* otherwise WireErr for a bad size, else CrcErr for a bad FCS, else WireErr.
C6_SizeOk == (inp.size >= TRDP_MIN_PD_HEADER_SIZE) /\ (inp.size <= TRDP_MAX_PD_PACKET_SIZE)
C6_FcsOk == inp.head.frameCheckSum = vos_crc32(inp.head)
C6_RestOk ==
    /\ inp.head.protocolVersion \div 256 = TRDP_PROTO_VER \div 256
    /\ ~(inp.head.datasetLength >= 1433)
    /\ inp.head.msgType \in {TRDP_MSG_PD, TRDP_MSG_PP, TRDP_MSG_PR, TRDP_MSG_PE}
C6_CheckResult ==
    (last.op = "Check") =>
        /\ (last.ret = "NO_ERR") <=> (C6_SizeOk /\ C6_FcsOk /\ C6_RestOk)
        /\ ~C6_SizeOk => last.ret = "WIRE_ERR"
        /\ (C6_SizeOk /\ ~C6_FcsOk) => last.ret = "CRC_ERR"
        /\ (C6_SizeOk /\ C6_FcsOk /\ ~C6_RestOk) => last.ret = "WIRE_ERR"

C6_Witness ==
    /\ last.op = "Check"
    /\ last.ret = "NO_ERR"
    /\ inp.head.datasetLength = 1432
    /\ inp.size = TRDP_MAX_PD_PACKET_SIZE

(***************************************************************************)
(* Specification SpecPut: Put and Get on one publisher element             *)
(***************************************************************************)
MaxPuts == 2
MaxGets == 2

Fill(n, b) == [k \in 1..n |-> b]

\* The data handed to Put: nothing, short payloads, a full payload and one
\* byte more than a full payload.
PutData ==
    { NullData, Data(<<1>>), Data(<<2, 2>>), Data(<<3, 3, 3, 3, 3>>),
      Data(Fill(TRDP_MAX_PD_DATA_SIZE, 4)), Data(Fill(TRDP_MAX_PD_DATA_SIZE + 1, 5)) }

\* Sizes of the caller's buffer for Get.
GetSizes == {1, TRDP_MAX_PD_DATA_SIZE}

InitPut ==
    /\ \E d0 \in {0, 1, 2} :
         sess = AddSend(OpenSession(0, 0),
                        NewElement(1, 1, 0, 20, 0, 0, 0, {}, "NULL"),
                        TRDP_MSG_PD, d0, 0, 0, 1)
    /\ peer = OpenSession(0, 0)
    /\ wire = <<>>
    /\ now = 1
    /\ hist = <<>>
    /\ inp = <<>>
    /\ last = [op |-> "init"]

DoPut ==
    /\ sess.pSndQueue[1].updPkts < MaxPuts
    /\ \E d \in PutData,
          allocOk \in (IF sess.pSndQueue[1].dataSize = 0 THEN BOOLEAN ELSE {TRUE}) :
         LET r == trdp_pdPut(sess, 1, NoMarshall, d, Len(d.bytes), allocOk) IN
         /\ sess' = r.s
         /\ last' = [op |-> "Put", ret |-> r.ret, put |-> d]
    /\ UNCHANGED <<peer, wire, now, inp, hist>>

DoGet ==
    /\ sess.pSndQueue[1].getPkts < MaxGets
    /\ \E b \in GetSizes :
         LET e == [sess.pSndQueue[1] EXCEPT !.getPkts = @ + 1]
             r == trdp_pdGet(sess, e, NoMarshall, Data(<<>>), b)
         IN
         /\ sess' = SetSnd(sess, 1, e)
         /\ last' = [ op |-> "Get", ret |-> r.ret, written |-> r.written,
                      out |-> r.out, size |-> r.size, bufSize |-> b,
                      put |-> IF last.op = "Put" /\ last.ret = "NO_ERR"
                              THEN last.put ELSE NullData ]
    /\ UNCHANGED <<peer, wire, now, inp, hist>>

SpecPut == InitPut /\ [][DoPut \/ DoGet]_vars

\* C5: without marshalling, after Put(data, n) returned NoErr for an n in
\* 1..MAX_PD_DATA, a Get with a large enough buffer returns NoErr, n and
\* the n bytes put.
C5_PutGetRoundTrip ==
    ( /\ last.op = "Get"
      /\ last.put.ptr # 0
      /\ Len(last.put.bytes) \in 1..TRDP_MAX_PD_DATA_SIZE
      /\ last.bufSize >= TRDP_MAX_PD_DATA_SIZE )
    => ( /\ last.ret = "NO_ERR"
         /\ last.written
         /\ last.size = Len(last.put.bytes)
         /\ last.out = last.put.bytes )

(***************************************************************************)
(* Specification Spec: the send side.  A cyclic publisher and a pull-only  *)
(* publisher; the application puts data, time passes, the send pass runs   *)
(* and pull requests arrive.                                               *)
(***************************************************************************)
MaxTime == 3
MaxRcv == 2

MsgTypes == {TRDP_MSG_PD, TRDP_MSG_PP, TRDP_MSG_PR}

\* Frames handed to the transport in the last operation, sent or failed.
Handed(l) == {l.sent[n] : n \in 1..Len(l.sent)} \cup {l.failed[n] : n \in 1..Len(l.failed)}

CallbacksOf(l) == {l.cbs[n] : n \in 1..Len(l.cbs)}

\* Identities of the elements of a queue, and the element with an identity.
Ids(q) == {q[k].id : k \in 1..Len(q)}
ById(q, id) == q[CHOOSE k \in 1..Len(q) : q[k].id = id]

\* Ghost: the highest counter handed to the transport so far, per element
\* and message type.
NoneHanded == [id \in {1, 2} |-> [m \in MsgTypes |-> U32(0)]]

RECURSIVE Record(_, _)
Record(hi, frames) ==
    IF frames = <<>> THEN hi
    ELSE LET f == Head(frames) IN
         Record([hi EXCEPT ![f.elt][f.head.msgType] = f.head.sequenceCounter], Tail(frames))

\* The outputs of an operation, as kept in `last`; due: the elements of the
\* send queue that were eligible when the pass began.
Outputs(op, r, due) ==
    [ op |-> op, err |-> r.err, sent |-> r.sent, failed |-> r.failed,
      cbs |-> r.cbs, removed |-> r.removed, due |-> due ]

DueIds(s, t) == {s.pSndQueue[k].id : k \in {j \in 1..Len(s.pSndQueue) : SendEligible(s.pSndQueue[j], t)}}

\* A pull request frame as received (the request itself carries no data).
PullFrame(comId, replyComId, replyIp) ==
    [ err |-> "NO_ERR",
      head |-> WithFCS([NullHeader EXCEPT !.sequenceCounter = U32(1),
                                          !.protocolVersion = TRDP_PROTO_VER,
                                          !.msgType = TRDP_MSG_PR,
                                          !.comId = comId,
                                          !.replyComId = replyComId,
                                          !.replyIpAddress = replyIp]),
      data |-> <<>>, size |-> TRDP_MIN_PD_HEADER_SIZE,
      srcIpAddr |-> 5, destIpAddr |-> 10 ]

PullFrames ==
    { PullFrame(1, 0, 30), PullFrame(9, 2, 0), PullFrame(9, 0, 0) }

Init ==
    /\ \E dataSize \in {0, 1} :
         sess = AddSend(
                  AddSend(OpenSession(0, 0),
                          NewElement(1, 1, 10, 20, 0, 0, 1, {"CALLBACK"}, "pubCb"),
                          TRDP_MSG_PD, dataSize, 0, 0, 1),
                  NewElement(2, 2, 10, 21, 0, 0, 0, {}, "pubCb"),
                  TRDP_MSG_PD, 0, 0, 0, 1)
    /\ peer = OpenSession(0, 0)
    /\ wire = <<>>
    /\ now = 1
    /\ inp = <<>>
    /\ hist = [hi |-> NoneHanded]
    /\ last = Outputs("init", NoOutput, {})

Tick ==
    /\ now < MaxTime
    /\ now' = now + 1
    /\ last' = Outputs("Tick", NoOutput, {})
    /\ UNCHANGED <<sess, peer, wire, inp, hist>>

\* tlp_put of the first data on a publisher that has none yet
Put ==
    /\ \E i \in 1..Len(sess.pSndQueue) :
         LET d == IF sess.pSndQueue[i].dataSize = 0 THEN NullData ELSE Data(<<7>>) IN
         /\ "INVALID_DATA" \in sess.pSndQueue[i].privFlags
         /\ \E r \in {trdp_pdPut(sess, i, NoMarshall, d, Len(d.bytes), TRUE)} :
              /\ sess' = r.s
              /\ last' = Outputs("Put", [NoOutput EXCEPT !.err = r.ret], {sess.pSndQueue[i].id})
    /\ UNCHANGED <<peer, wire, now, inp, hist>>

\* tlp_setRedundant: the cyclic publisher becomes a follower.
SetRedundant ==
    /\ "REDUNDANT" \notin sess.pSndQueue[1].privFlags
    /\ sess' = [sess EXCEPT !.pSndQueue[1].privFlags = @ \cup {"REDUNDANT"}]
    /\ last' = Outputs("SetRedundant", NoOutput, {})
    /\ UNCHANGED <<peer, wire, now, inp, hist>>

\* trdp_pdSendQueued
SendDue ==
    /\ \E ioFail \in {{}, {1}} :
       \E r \in {trdp_pdSendQueued(sess, now, ioFail)} :
         /\ sess' = r.s
         /\ last' = Outputs("SendDue", r, DueIds(sess, now))
         /\ hist' = [hist EXCEPT !.hi = Record(@, r.sent \o r.failed)]
    /\ UNCHANGED <<peer, wire, now, inp>>

\* trdp_pdReceive of a pull request
Receive ==
    /\ sess.stats.numRcv < MaxRcv
    /\ \E rx \in PullFrames, ioFail \in {{}, {1}} :
       \E r \in {trdp_pdReceive(sess, now, rx, ioFail)} :
         /\ sess' = r.s
         /\ last' = Outputs("Receive", r,
                            IF PulledPublisher(sess, rx.head) = 0 THEN {}
                            ELSE DueIds(sess, now)
                                 \cup {sess.pSndQueue[PulledPublisher(sess, rx.head)].id})
                    @@ [pulled |-> PulledPublisher(sess, rx.head), rx |-> rx]
         /\ hist' = [hist EXCEPT !.hi = Record(@, r.sent \o r.failed)]
    /\ UNCHANGED <<peer, wire, now, inp>>

Next == Tick \/ Put \/ SetRedundant \/ SendDue \/ Receive

Spec == Init /\ [][Next]_vars

\* C1: every frame handed to the transport for a publisher carries a
\* sequence counter strictly greater than that of every earlier frame of
\* the same element and message type; a PD frame carries the element's
\* curSeqCnt and leaves curSeqCnt4Pull alone, a PP frame carries
\* curSeqCnt4Pull and leaves curSeqCnt alone.
C1_Step ==
    \A f \in Handed(last') :
        LET before == ById(sess.pSndQueue, f.elt)
            after == ById(sess'.pSndQueue, f.elt)
        IN
        /\ U32Gt(f.head.sequenceCounter, hist.hi[f.elt][f.head.msgType])
        /\ f.head.msgType \in {TRDP_MSG_PD, TRDP_MSG_PP}
        /\ (f.head.msgType = TRDP_MSG_PD) =>
              /\ f.head.sequenceCounter = after.curSeqCnt
              /\ after.curSeqCnt = U32Add(before.curSeqCnt, U32(1))
              /\ after.curSeqCnt4Pull = before.curSeqCnt4Pull
        /\ (f.head.msgType = TRDP_MSG_PP) =>
              /\ f.head.sequenceCounter = after.curSeqCnt4Pull
              /\ after.curSeqCnt4Pull = U32Add(before.curSeqCnt4Pull, U32(1))
              /\ after.curSeqCnt = before.curSeqCnt
C1_SeqIncreasing == [][C1_Step]_vars

\* The second pull reply of the cyclic publisher leaves after its second
\* cyclic frame.
C1_Witness ==
    /\ last.op = "Receive"
    /\ \E f \in Handed(last) :
         /\ f.elt = 1
         /\ f.head.msgType = TRDP_MSG_PP
         /\ f.head.sequenceCounter = U32(2)
    /\ hist.hi[1][TRDP_MSG_PD] = U32(2)

\* C7: in every send pass, also the one a pull request triggers, an element
\* whose privFlags contain INVALID_DATA is not handed to the transport and
\* its callback is not invoked.
C7_Step ==
    \A k \in 1..Len(sess.pSndQueue) :
        ("INVALID_DATA" \in sess.pSndQueue[k].privFlags) =>
            /\ \A f \in Handed(last') : f.elt # sess.pSndQueue[k].id
            /\ \A c \in CallbacksOf(last') : c.elt # sess.pSndQueue[k].id
C7_InvalidNeverSent == [][C7_Step]_vars

\* A pull request for the pull-only publisher, which has no valid data,
\* arrives when the cyclic publisher is due: the pass sends the cyclic
\* frame only.
C7_Witness ==
    /\ last.op = "Receive"
    /\ last.due = {1, 2}
    /\ "INVALID_DATA" \in sess.pSndQueue[2].privFlags
    /\ {f.elt : f \in Handed(last)} = {1}
    /\ {c.elt : c \in CallbacksOf(last)} = {1}

(***************************************************************************)
(* Specification SpecRecv: the receive side.  One subscriber with a        *)
(* callback, registered with CALLBACK or with CALLBACK and FORCE_CB;       *)
(* frames arrive from two sources, time passes and the timeout scan runs.  *)
(***************************************************************************)
\* A PD frame as received: the header with its FCS (good or bad), the
\* payload and the addresses.
RxFrame(msgType, comId, seq, srcIp, payload, fcsOk) ==
    [ err |-> "NO_ERR",
      head |-> [WithFCS([NullHeader EXCEPT !.sequenceCounter = seq,
                                           !.protocolVersion = TRDP_PROTO_VER,
                                           !.msgType = msgType,
                                           !.comId = comId,
                                           !.datasetLength = Len(payload)])
                EXCEPT !.frameCheckSum = IF fcsOk THEN @ ELSE @ + 1],
      data |-> payload, size |-> trdp_packetSizePD(Len(payload)),
      srcIpAddr |-> srcIp, destIpAddr |-> 10 ]

\* Frames of the subscribed comId from source 5 with three payloads and
\* with counters that restart, skip and wrap; frames of source 6; a frame
\* with a bad FCS and a frame nobody subscribed to.
RxFrames ==
    { RxFrame(TRDP_MSG_PD, 1, U32(n), 5, d, TRUE) : n \in {1, 2}, d \in {<<>>, <<7>>, <<7, 8>>} }
    \cup { RxFrame(TRDP_MSG_PD, 1, c, 5, <<7>>, TRUE) : c \in {U32(0), U32(42), UINT32_MAX} }
    \cup { RxFrame(TRDP_MSG_PD, 1, U32(n), 6, <<7>>, TRUE) : n \in {1, 2} }
    \cup { RxFrame(TRDP_MSG_PD, 1, U32(3), 5, <<7>>, FALSE),
           RxFrame(TRDP_MSG_PD, 9, U32(3), 5, <<7>>, TRUE) }

\* Number of callbacks with a result code among those made.
CountCbs(cbs, code) == Cardinality({n \in 1..Len(cbs) : cbs[n].resultCode = code})

\* Ghost of the receive side.  toCbs, toCnt: the TimeoutErr callbacks and
\* the increments of numTimeout since the last accepted frame.  acc, prev:
\* the last accepted frame and the one before it: same (its payload and
\* size were those held before), differs (its payload differed from the
\* payload held before over its size), pending (TIMED_OUT was set when it
\* arrived), cbs (the number of NoErr callbacks it triggered).
NoFrame == [any |-> FALSE, same |-> FALSE, differs |-> FALSE, pending |-> FALSE, cbs |-> 0]

NoHistory == [toCbs |-> 0, toCnt |-> 0, acc |-> NoFrame, prev |-> NoFrame]

InitRecv ==
    /\ \E pktFlags \in {{"CALLBACK"}, {"CALLBACK", "FORCE_CB"}} :
         sess = AddRecv(OpenSession(0, 0),
                        NewElement(1, 1, 0, 0, 0, 0, 1, pktFlags, "subCb"), 2)
    /\ peer = OpenSession(0, 0)
    /\ wire = <<>>
    /\ now = 1
    /\ inp = <<>>
    /\ hist = NoHistory
    /\ last = Outputs("init", NoOutput, {})

\* trdp_pdReceive of a PD frame
ReceivePD ==
    /\ sess.stats.numRcv + sess.stats.numCrcErr < MaxRcv
    /\ \E rx \in RxFrames :
       \E r \in {trdp_pdReceive(sess, now, rx, {})} :
         LET e == sess.pRcvQueue[1] IN
         /\ sess' = r.s
         /\ last' = [ op |-> "Receive", err |-> r.err, accepted |-> r.accepted,
                      matched |-> r.matched, cbs |-> r.cbs, rx |-> rx ]
         /\ hist' = IF r.accepted = 0 THEN hist
                    ELSE [ toCbs |-> 0, toCnt |-> 0,
                           acc |-> [ any |-> TRUE,
                                     same |-> /\ e.numRxTx > 0
                                              /\ e.dataSize = Len(rx.data)
                                              /\ Bytes(sess.mem[e.pFrame].data, e.dataSize) = rx.data,
                                     differs |-> Bytes(sess.mem[e.pFrame].data, Len(rx.data)) # rx.data,
                                     pending |-> "TIMED_OUT" \in e.privFlags,
                                     cbs |-> CountCbs(r.cbs, "NO_ERR") ],
                           prev |-> hist.acc ]
    /\ UNCHANGED <<peer, wire, now, inp>>

\* trdp_pdHandleTimeOuts
HandleTimeOuts ==
    /\ \E r \in {trdp_pdHandleTimeOuts(sess, now)} :
         /\ sess' = r.s
         /\ last' = [op |-> "HandleTimeOuts", cbs |-> r.cbs]
         /\ hist' = [hist EXCEPT !.toCbs = @ + CountCbs(r.cbs, "TIMEOUT_ERR"),
                                 !.toCnt = @ + (r.s.stats.numTimeout - sess.stats.numTimeout)]
    /\ UNCHANGED <<peer, wire, now, inp>>

NextRecv == Tick \/ ReceivePD \/ HandleTimeOuts

SpecRecv == InitRecv /\ [][NextRecv]_vars

\* The step accepted a frame for a subscriber.
Accepts == last'.op = "Receive" /\ last'.accepted # 0

\* The sequence numbers strictly between cur and new, modulo 2^32.
Skipped(cur, new) == U32Sub(U32Sub(new, cur), U32(1))

\* C2 as stated: when Receive accepts a frame, afterwards curSeqCnt is the
\* frame's sequenceCounter and numMissed has grown by the number of
\* sequence numbers skipped, modulo 2^32.
C2_StepAsStated ==
    Accepts =>
        LET before == sess.pRcvQueue[last'.accepted]
            after == sess'.pRcvQueue[last'.accepted]
            seq == last'.rx.head.sequenceCounter
        IN  /\ after.curSeqCnt = seq
            /\ after.numMissed = U32Add(before.numMissed, Skipped(before.curSeqCnt, seq))
C2_Step ==
    Accepts =>
        LET before == sess.pRcvQueue[last'.accepted]
            after == sess'.pRcvQueue[last'.accepted]
            seq == last'.rx.head.sequenceCounter
        IN  /\ after.curSeqCnt = seq
            /\ after.numMissed =
                 IF seq = before.curSeqCnt THEN before.numMissed
                 ELSE U32Add(before.numMissed, Skipped(before.curSeqCnt, seq))
C3_Step ==
    Accepts =>
        LET before == sess.pRcvQueue[last'.accepted]
            after == sess'.pRcvQueue[last'.accepted]
        IN  /\ after.pFrame = sess.pNewFrame
            /\ sess'.pNewFrame = before.pFrame
            /\ after.pFrame # before.pFrame
            /\ sess'.mem[after.pFrame].frameHead = last'.rx.head
            /\ sess'.mem[sess'.pNewFrame] = sess.mem[before.pFrame]
C3_BuffersSwapped == [][C3_Step]_vars

\* The second accepted frame: the buffers are back where they were at the
\* start, the subscriber holding the frame received last.
C3_Witness ==
    /\ last.op = "Receive"
    /\ last.accepted = 1
    /\ sess.pRcvQueue[1].numRxTx = 2
    /\ sess.pNewFrame = 1
    /\ sess.pRcvQueue[1].pFrame = 2
    /\ sess.mem[2].frameHead = last.rx.head

\* The subscriber's timeout has passed: it is armed and not in the future.
Overdue(e, t) == e.interval # 0 /\ e.timeToGo # 0 /\ e.timeToGo <= t

\* C4: for a subscriber with a callback, between the moment its timeToGo
\* has passed and the next accepted frame, the calls of HandleTimeouts
\* deliver exactly one TimeoutErr callback and count numTimeout once; an
\* accepted frame clears TIMED_OUT and re-arms timeToGo, and the next
\* silence is notified once again.
C4_Step ==
    /\ hist'.toCbs <= 1
    /\ hist'.toCnt <= 1
    /\ (last'.op = "HandleTimeOuts") =>
          /\ CountCbs(last'.cbs, "TIMEOUT_ERR") = Len(last'.cbs)
          /\ Overdue(sess.pRcvQueue[1], now) =>
                /\ hist'.toCbs = 1
                /\ hist'.toCnt = 1
                /\ "TIMED_OUT" \in sess'.pRcvQueue[1].privFlags
          /\ ~Overdue(sess.pRcvQueue[1], now) =>
                /\ last'.cbs = <<>>
                /\ sess'.stats.numTimeout = sess.stats.numTimeout
    /\ (last'.op = "Receive") =>
          /\ CountCbs(last'.cbs, "TIMEOUT_ERR") = 0
          /\ sess'.stats.numTimeout = sess.stats.numTimeout
    /\ Accepts =>
          /\ "TIMED_OUT" \notin sess'.pRcvQueue[last'.accepted].privFlags
          /\ sess'.pRcvQueue[last'.accepted].timeToGo
                = now + sess.pRcvQueue[last'.accepted].interval
          /\ sess'.pRcvQueue[last'.accepted].timeToGo > now
C4_OneTimeoutPerEpisode == [][C4_Step]_vars

\* A repeated scan in the second episode: the first timeout was notified, a
\* frame was accepted, the silence after it was notified once.
C4_Witness ==
    /\ last.op = "HandleTimeOuts"
    /\ last.cbs = <<>>
    /\ "TIMED_OUT" \in sess.pRcvQueue[1].privFlags
    /\ sess.pRcvQueue[1].numRxTx = 1
    /\ sess.stats.numTimeout = 2
    /\ hist.toCbs = 1

\* The subscriber is registered with CALLBACK and without FORCE_CB, and the
\* last two accepted frames had the same payload.
TwoIdentical ==
    /\ "CALLBACK" \in sess.pRcvQueue[1].pktFlags
    /\ "FORCE_CB" \notin sess.pRcvQueue[1].pktFlags
    /\ hist.acc.any /\ hist.prev.any
    /\ hist.acc.same

\* C9 as stated: for a subscriber with CALLBACK and without FORCE_CB, when
\* two frames with identical payload are accepted in a row, exactly one
\* callback fires, for the first frame.
C9_AsStated == TwoIdentical => (hist.prev.cbs = 1 /\ hist.acc.cbs = 0)

\* C9 amended: for a subscriber with CALLBACK and without FORCE_CB, when
\* two frames with identical payload are accepted in a row and no timeout
\* was flagged between them, the second frame fires no callback; the first
\* fires exactly one if its payload differed from the payload held before
\* it over its size or a timeout was pending when it arrived, and none
\* otherwise.
C9_Suppressed ==
    (TwoIdentical /\ ~hist.acc.pending) =>
        /\ hist.acc.cbs = 0
        /\ hist.prev.cbs = (IF hist.prev.differs \/ hist.prev.pending THEN 1 ELSE 0)

\* Two identical frames in a row, the first notified, the second not.
C9_Witness ==
    /\ TwoIdentical
    /\ ~hist.acc.pending
    /\ hist.prev.differs
    /\ hist.prev.cbs = 1
    /\ hist.acc.cbs = 0
    /\ last.op = "Receive"
    /\ last.accepted = 1
    /\ last.cbs = <<>>

\* C10: for a subscriber with the CALLBACK flag and a callback, an accepted
\* frame that is no pull request triggers exactly one NoErr callback if
\* FORCE_CB is set, or TIMED_OUT was set when the frame arrived, or the new
\* payload differs from the payload held before over the new dataSize, and
\* no callback otherwise.
C10_Step ==
    ( /\ Accepts
      /\ last'.rx.head.msgType # TRDP_MSG_PR
      /\ "CALLBACK" \in sess.pRcvQueue[last'.accepted].pktFlags
      /\ sess.pRcvQueue[last'.accepted].pfCbFunction # "NULL" )
    => LET before == sess.pRcvQueue[last'.accepted]
           n == last'.rx.head.datasetLength
           notify == \/ "FORCE_CB" \in before.pktFlags
                     \/ "TIMED_OUT" \in before.privFlags
                     \/ Bytes(last'.rx.data, n) # Bytes(sess.mem[before.pFrame].data, n)
       IN  /\ Len(last'.cbs) = (IF notify THEN 1 ELSE 0)
           /\ CountCbs(last'.cbs, "NO_ERR") = Len(last'.cbs)
           /\ \A c \in CallbacksOf(last') : c.elt = before.id /\ c.pData = sess.pNewFrame
C10_NotifiedIff == [][C10_Step]_vars

\* The first frame after a timeout repeats the payload held and is
\* notified, without FORCE_CB.
C10_Witness ==
    /\ last.op = "Receive"
    /\ last.accepted = 1
    /\ "FORCE_CB" \notin sess.pRcvQueue[1].pktFlags
    /\ hist.acc.same
    /\ hist.acc.pending
    /\ Len(last.cbs) = 1
    /\ last.cbs[1].resultCode = "NO_ERR"

(***************************************************************************)
(* Specification SpecPull: the statistics pull between two engines.  The   *)
(* requester (sess) subscribes to the statistics telegram and holds one    *)
(* request element; the remote engine (peer) publishes the statistics      *)
(* element and a cyclic telegram.  Frames travel over wire, which delivers *)
(* each frame once, in any order.                                          *)
(***************************************************************************)
\* The addresses of the demo: its own, the remote engine's and the reply
\* addresses (its own or a group it has joined).
OwnIp == 2

DestIp == 5

ReplyIps == {OwnIp, 30}

\* The size of the statistics payload.
StatisticsSize == 6

\* tlc_openSession publishes the statistics telegram: pull-only, without
\* callback, its payload always valid.
PublishStatistics(s, t) ==
    AddSend(s,
            [NewElement(1, TRDP_GLOBAL_STATISTICS_COMID, 0, 0, 0, 0, 0, {}, "NULL")
                EXCEPT !.privFlags = {}],
            TRDP_MSG_PD, StatisticsSize, 0, 0, t)

\* tlp_request: a one-shot element of type PR, to be sent in the next pass.
Request(s, id, comId, etbTopoCnt, destIp, replyComId, replyIp, cb, t) ==
    AddSend(s,
            [NewElement(id, comId, 0, destIp, etbTopoCnt, 0, 0, {}, cb)
                EXCEPT !.privFlags = {"REQ_2B_SENT"}],
            TRDP_MSG_PR, 0, replyComId, replyIp, t)

\* The frames a pass handed to the transport, as datagrams of srcIp.
ToWire(frames, srcIp) ==
    [ k \in 1..Len(frames) |->
        [ srcIp |-> srcIp, destIp |-> frames[k].destIp, head |-> frames[k].head,
          data |-> frames[k].data, size |-> frames[k].size ] ]

\* A datagram as read from the socket.
FromWire(w) ==
    [ err |-> "NO_ERR", head |-> w.head, data |-> w.data, size |-> w.size,
      srcIpAddr |-> w.srcIp, destIpAddr |-> w.destIp ]

RemoveAt(q, k) == SubSeq(q, 1, k - 1) \o SubSeq(q, k + 1, Len(q))

\* The statistics replies among frames: PP frames with the statistics comId
\* to the reply address.
Replies(frames, replyIp) ==
    { k \in 1..Len(frames) :
        /\ frames[k].head.msgType = TRDP_MSG_PP
        /\ frames[k].head.comId = TRDP_GLOBAL_STATISTICS_COMID
        /\ frames[k].destIp = replyIp }

\* Other PP frames and other frames with the statistics comId.
Strays(frames, replyIp) ==
    { k \in 1..Len(frames) :
        \/ frames[k].head.msgType = TRDP_MSG_PP
        \/ frames[k].head.comId = TRDP_GLOBAL_STATISTICS_COMID } \ Replies(frames, replyIp)

\* The callbacks of the statistics subscriber with a result code.
SubCbs(cbs, code) ==
    { k \in 1..Len(cbs) : cbs[k].side = "sub" /\ cbs[k].elt = 1 /\ cbs[k].resultCode = code }

\* Ghost of the pull: the requests handed to the transport by the
\* requester, the replies and stray frames emitted by the remote engine,
\* and the callbacks of the statistics subscriber.
Tally(requests, frames, cbs) ==
    [hist EXCEPT !.requests = @ + requests,
                 !.replies = @ + Cardinality(Replies(frames, inp.replyIp)),
                 !.strays = @ + Cardinality(Strays(frames, inp.replyIp)),
                 !.noErr = @ + Cardinality(SubCbs(cbs, "NO_ERR")),
                 !.others = @ + (Len(cbs) - Cardinality(SubCbs(cbs, "NO_ERR")))]

InitPull ==
    /\ now = 1
    /\ \E replyIp \in ReplyIps, pktFlags \in {{"CALLBACK"}, {"CALLBACK", "FORCE_CB"}},
          cb \in {"NULL", "myPDcallBack"}, seen \in 0..1 :
         /\ inp = [replyIp |-> replyIp]
         /\ sess = Request(
                     AddRecv(OpenSession(0, 0),
                             NewElement(1, TRDP_GLOBAL_STATISTICS_COMID, 0, replyIp, 0, 0, 2,
                                        pktFlags, "myPDcallBack"),
                             3),
                     2, TRDP_STATISTICS_PULL_COMID, 0, DestIp,
                     TRDP_GLOBAL_STATISTICS_COMID, replyIp, cb, 1)
         /\ peer = [ trdp_pdPut(
                        AddSend(PublishStatistics([OpenSession(0, 0) EXCEPT !.stats.numRcv = seen], 1),
                                NewElement(2, 1, 0, OwnIp, 0, 0, 2, {}, "NULL"),
                                TRDP_MSG_PD, 1, 0, 0, 1),
                        2, NoMarshall, Data(<<7>>), 1, TRUE).s
                     EXCEPT !.pSndQueue[2].updPkts = 0 ]
    /\ wire = <<>>
    /\ hist = [requests |-> 0, replies |-> 0, strays |-> 0, noErr |-> 0, others |-> 0]
    /\ last = Outputs("init", NoOutput, {})

\* The requester's pass over its send queue.
RequesterSend ==
    /\ \E r \in {trdp_pdSendQueued(sess, now, {})} :
         /\ sess' = r.s
         /\ wire' = wire \o ToWire(r.sent, OwnIp)
         /\ last' = Outputs("RequesterSend", r, {})
         /\ hist' = Tally(Len(r.sent), <<>>, <<>>)
    /\ UNCHANGED <<peer, now, inp>>

\* The remote engine's pass over its send queue.
RemoteSend ==
    /\ \E r \in {trdp_pdSendQueued(peer, now, {})} :
         /\ peer' = r.s
         /\ wire' = wire \o ToWire(r.sent, DestIp)
         /\ last' = Outputs("RemoteSend", r, {})
         /\ hist' = Tally(0, r.sent, <<>>)
    /\ UNCHANGED <<sess, now, inp>>

\* The remote engine reads a datagram addressed to it.
RemoteReceive ==
    /\ \E k \in 1..Len(wire) :
         /\ wire[k].destIp = DestIp
         /\ \E r \in {trdp_pdReceive(peer, now, FromWire(wire[k]), {})} :
              /\ peer' = r.s
              /\ wire' = RemoveAt(wire, k) \o ToWire(r.sent, DestIp)
              /\ last' = Outputs("RemoteReceive", r, {})
              /\ hist' = Tally(0, r.sent, <<>>)
    /\ UNCHANGED <<sess, now, inp>>

\* The requester reads a datagram addressed to it or to the reply address.
RequesterReceive ==
    /\ \E k \in 1..Len(wire) :
         /\ wire[k].destIp \in {OwnIp, inp.replyIp}
         /\ \E r \in {trdp_pdReceive(sess, now, FromWire(wire[k]), {})} :
              /\ sess' = r.s
              /\ wire' = RemoveAt(wire, k) \o ToWire(r.sent, OwnIp)
              /\ last' = Outputs("RequesterReceive", r, {})
              /\ hist' = Tally(0, <<>>, r.cbs)
    /\ UNCHANGED <<peer, now, inp>>

\* The requester's timeout scan.
RequesterTimeOuts ==
    /\ \E r \in {trdp_pdHandleTimeOuts(sess, now)} :
         /\ sess' = r.s
         /\ last' = Outputs("RequesterTimeOuts", [NoOutput EXCEPT !.cbs = r.cbs], {})
         /\ hist' = Tally(0, <<>>, r.cbs)
    /\ UNCHANGED <<peer, wire, now, inp>>

SpecPull == InitPull /\ [][Tick \/ RequesterSend \/ RemoteSend \/ RemoteReceive \/ RequesterReceive \/ RequesterTimeOuts]_vars

\* A frame of the message type is on the wire.
OnWire(msgType) == \E k \in 1..Len(wire) : wire[k].head.msgType = msgType

\* C8: a requester that subscribes to comId 35 and sends one PR frame with
\* comId 31, replyComId 35 and replyIp R to a remote engine publishing the
\* statistics element makes the remote emit exactly one PP frame with comId
\* 35 to R, and the requester's subscriber callback fires exactly once with
\* resultCode NoErr: the request element, while queued, leaves in the next
\* send pass; never more than one request, reply and notification, and no
\* other PP or statistics frame; once the request has been read there is
\* one reply, and once the reply has been read there is one notification.
C8_BasicPull ==
    /\ hist.requests <= 1
    /\ hist.replies <= hist.requests
    /\ hist.noErr <= hist.replies
    /\ hist.strays = 0
    /\ (hist.requests = 0) =>
          /\ Len(sess.pSndQueue) = 1
          /\ "REQ_2B_SENT" \in sess.pSndQueue[1].privFlags
          /\ "INVALID_DATA" \notin sess.pSndQueue[1].privFlags
    /\ (hist.requests = 1) => Len(sess.pSndQueue) = 0
    /\ (hist.requests = 1 /\ ~OnWire(TRDP_MSG_PR)) => hist.replies = 1
    /\ (hist.replies = 1 /\ ~OnWire(TRDP_MSG_PP)) => hist.noErr = 1

\* The reply has just been read by the requester and notified.
C8_Witness ==
    /\ last.op = "RequesterReceive"
    /\ ~OnWire(TRDP_MSG_PR)
    /\ ~OnWire(TRDP_MSG_PP)
    /\ hist.requests = 1
    /\ hist.replies = 1
    /\ hist.noErr = 1
    /\ Len(last.cbs) = 1
    /\ last.cbs[1].resultCode = "NO_ERR"
    /\ last.cbs[1].comId = TRDP_GLOBAL_STATISTICS_COMID
    /\ last.cbs[1].msgType = TRDP_MSG_PP
    /\ last.cbs[1].srcIpAddr = DestIp

\* The step reads a good frame with counter 0 from a source whose last
\* accepted frame, also the subscriber's last, had counter 42.
Restarts ==
    /\ last'.op = "Receive"
    /\ last'.matched = 1
    /\ last'.rx.head.sequenceCounter = U32(0)
    /\ sess.pRcvQueue[1].curSeqCnt = U32(42)
    /\ \E n \in 1..Len(sess.pRcvQueue[1].pSeqCntList) :
         /\ sess.pRcvQueue[1].pSeqCntList[n].srcIpAddr = last'.rx.srcIpAddr
         /\ sess.pRcvQueue[1].pSeqCntList[n].lastSeqCnt = U32(42)

\* C11: after a frame with counter 42 of a source was accepted, a frame
\* with counter 0 of the same source is accepted as new: the buffers are
\* exchanged, curSeqCnt becomes 0, and numMissed does not grow by a
\* wrap-sized amount (it grows by less than 2^16).
C11_Step ==
    Restarts =>
        /\ last'.accepted = 1
        /\ sess'.pRcvQueue[1].pFrame = sess.pNewFrame
        /\ sess'.pNewFrame = sess.pRcvQueue[1].pFrame
        /\ sess'.pRcvQueue[1].curSeqCnt = U32(0)
        /\ U32Sub(sess'.pRcvQueue[1].numMissed, sess.pRcvQueue[1].numMissed)[1] = 0
C11_RestartNotCounted == [][C11_Step]_vars

(***************************************************************************)
(* Specification SpecDist: trdp_pdDistribute on a send queue of up to      *)
(* MaxQueue elements, pull-only and cyclic, with intervals of 100 ms,      *)
(* 400 ms and 1200 s and send times from -- to 1 s.                        *)
(***************************************************************************)
MaxQueue == 3

Intervals == {0, 100000, 400000, 1200000000}

SendTimes == {0, 50000, 1000000}

\* tlp_publish of one element per interval of ivs, the k-th at time tgs[k]
\* before its interval.
RECURSIVE PublishAll(_, _, _)
PublishAll(s, ivs, tgs) ==
    IF Len(s.pSndQueue) = Len(ivs) THEN s
    ELSE PublishAll(
            [ AddSend(s,
                      NewElement(Len(s.pSndQueue) + 1, Len(s.pSndQueue) + 1, 0, 20, 0, 0,
                                 ivs[Len(s.pSndQueue) + 1], {}, "NULL"),
                      TRDP_MSG_PD, 0, 0, 0, 0)
              EXCEPT !.pSndQueue[Len(s.pSndQueue) + 1].timeToGo =
                        IF ivs[Len(s.pSndQueue) + 1] = 0 THEN 0
                        ELSE tgs[Len(s.pSndQueue) + 1] ],
            ivs, tgs)

InitDist ==
    /\ \E n \in 0..MaxQueue :
       \E ivs \in [1..n -> Intervals], tgs \in [1..n -> SendTimes] :
         sess = PublishAll(OpenSession(0, 0), ivs, tgs)
    /\ peer = OpenSession(0, 0)
    /\ wire = <<>>
    /\ now = 0
    /\ inp = <<>>
    /\ hist = <<>>
    /\ last = [op |-> "init"]

\* trdp_pdDistribute, once
Distribute ==
    /\ last.op = "init"
    /\ \E r \in {trdp_pdDistribute(sess.pSndQueue)} :
         /\ sess' = [sess EXCEPT !.pSndQueue = r.q]
         /\ last' = [op |-> "Distribute", ret |-> r.ret, before |-> sess.pSndQueue]
    /\ UNCHANGED <<peer, wire, now, inp, hist>>

SpecDist == InitDist /\ [][Distribute]_vars

\* The smallest interval and the largest timeToGo of the cyclic elements of
\* a queue with at least one of them.
MinInterval(q) ==
    CHOOSE d \in {q[k].interval : k \in Cyclic(q)} : \A k \in Cyclic(q) : d <= q[k].interval

MaxTimeToGo(q) ==
    CHOOSE m \in {q[k].timeToGo : k \in Cyclic(q)} : \A k \in Cyclic(q) : m >= q[k].timeToGo

\* C12: Distribute gives the i-th cyclic element in queue order timeToGo =
\* tNull + i * slot, with tNull the largest timeToGo and slot the smallest
\* interval divided by the number of cyclic elements, unless 2 * i * slot
\* exceeds the element's own interval: then its timeToGo is unchanged;
\* elements with interval 0 are never changed.
C12_Distributed ==
    (last.op = "Distribute") =>
        \A k \in 1..Len(last.before) :
            LET q == last.before
                i == PacketIndex(q, k)
                slot == MinInterval(q) \div Cardinality(Cyclic(q))
            IN  sess.pSndQueue[k] =
                    IF q[k].interval # 0 /\ ~(2 * i * slot > q[k].interval)
                    THEN [q[k] EXCEPT !.timeToGo = MaxTimeToGo(q) + i * slot]
                    ELSE q[k]

\* C13: Distribute moves no element's timeToGo by more than half of the
\* element's own interval.
C13_HalfInterval ==
    (last.op = "Distribute") =>
        \A k \in 1..Len(last.before) :
            LET old == last.before[k].timeToGo
                new == sess.pSndQueue[k].timeToGo
            IN  /\ 2 * (new - old) <= last.before[k].interval
                /\ 2 * (old - new) <= last.before[k].interval

(***************************************************************************)
(* Specification SpecReq: pull requests on the send side.  A session with  *)
(* a cyclic publisher issues up to MaxReq requests; the train topology may *)
(* change once, and the transport may fail to send the requests of a pass. *)
(***************************************************************************)
MaxReq == 2

ReqIds == 2..(MaxReq + 1)

InitReq ==
    /\ \E etbTopoCnt \in {0, 1}, opTrnTopoCnt \in {0, 1} :
         sess = trdp_pdPut(
                  AddSend(OpenSession(1, 1),
                          NewElement(1, 1, 10, 20, etbTopoCnt, opTrnTopoCnt, 2, {}, "NULL"),
                          TRDP_MSG_PD, 1, 0, 0, 1),
                  1, NoMarshall, Data(<<7>>), 1, TRUE).s
    /\ peer = OpenSession(0, 0)
    /\ wire = <<>>
    /\ now = 1
    /\ inp = <<>>
    /\ hist = [reqs |-> 0, removed |-> {}]
    /\ last = Outputs("init", NoOutput, {})

\* tlp_request for comId 9, with the topology counter of the session or
\* without one.
DoRequest ==
    /\ hist.reqs < MaxReq
    /\ \E req \in {<<0, "NULL">>, <<sess.etbTopoCnt, "reqCb">>} :
         sess' = Request(sess, hist.reqs + 2, 9, req[1], 20, 0, 0, req[2], now)
    /\ hist' = [hist EXCEPT !.reqs = @ + 1]
    /\ last' = Outputs("Request", NoOutput, {})
    /\ UNCHANGED <<peer, wire, now, inp>>

\* tlc_setETBTopoCount, tlc_setOpTrainTopoCount: the train was inaugurated
\* anew, one of the two counters of the session changes.
SetTopo ==
    /\ \E c \in {"etbTopoCnt", "opTrnTopoCnt"} :
         /\ sess[c] = 1
         /\ sess' = [sess EXCEPT ![c] = 2]
    /\ last' = Outputs("SetTopo", NoOutput, {})
    /\ UNCHANGED <<peer, wire, now, inp, hist>>

\* trdp_pdSendQueued
SendRequests ==
    /\ \E ioFail \in SUBSET DueIds(sess, now) :
       \E r \in {trdp_pdSendQueued(sess, now, ioFail)} :
         /\ sess' = r.s
         /\ last' = Outputs("SendDue", r, DueIds(sess, now))
         /\ hist' = [hist EXCEPT !.removed = @ \cup {r.removed[n].id : n \in 1..Len(r.removed)}]
    /\ UNCHANGED <<peer, wire, now, inp>>

NextReq == Tick \/ DoRequest \/ SetTopo \/ SendRequests

SpecReq == InitReq /\ [][NextReq]_vars

\* The frames of element id among a sequence of frames.
FramesOf(frames, id) == {n \in 1..Len(frames) : frames[n].elt = id}

\* C14: a pull-request element is transmitted exactly once and then
\* destroyed: the send pass that processes it hands its frame to the
\* transport once, the send completes, and the element is removed from the
\* queue with its socket reference released and its magic zeroed; no later
\* pass emits a frame of a removed element.
C14_Step ==
    (last'.op = "SendDue") =>
        /\ \A k \in 1..Len(sess.pSndQueue) :
             LET e == sess.pSndQueue[k] IN
             (FrameHead(sess, e).msgType = TRDP_MSG_PR /\ e.id \in last'.due) =>
                /\ Cardinality(FramesOf(last'.sent, e.id)) = 1
                /\ FramesOf(last'.failed, e.id) = {}
                /\ e.id \notin Ids(sess'.pSndQueue)
                /\ \E n \in 1..Len(last'.removed) :
                     last'.removed[n].id = e.id /\ last'.removed[n].magic = 0
        /\ sess'.iface[1].usage = sess.iface[1].usage - Len(last'.removed)
        /\ \A f \in Handed(last') : f.elt \notin hist.removed
        /\ \A n \in 1..Len(last'.removed) :
             FramesOf(last'.sent, last'.removed[n].id) # {}
C14_SentOnceThenRemoved == [][C14_Step]_vars

\* C15: for a cyclic publisher created without data (dataSize 0,
\* INVALID_DATA set), Put(NULL, 0) returns NoErr, clears INVALID_DATA and
\* increments updPkts; from then on a send pass in which the element is due
\* hands a frame with datasetLength 0 to the transport (unless the element
\* is a redundant follower).
C15_Step ==
    /\ (last'.op = "Put") =>
          \A k \in 1..Len(sess.pSndQueue) :
             ( /\ sess.pSndQueue[k].id \in last'.due
               /\ sess.pSndQueue[k].interval # 0
               /\ sess.pSndQueue[k].dataSize = 0 )
             => /\ last'.err = "NO_ERR"
                /\ "INVALID_DATA" \notin sess'.pSndQueue[k].privFlags
                /\ sess'.pSndQueue[k].updPkts = sess.pSndQueue[k].updPkts + 1
                /\ sess'.pSndQueue[k].dataSize = 0
    /\ (last'.op \in {"SendDue", "Receive"}) =>
          \A k \in 1..Len(sess.pSndQueue) :
             ( /\ sess.pSndQueue[k].id \in last'.due
               /\ sess.pSndQueue[k].interval # 0
               /\ sess.pSndQueue[k].dataSize = 0
               /\ sess.pSndQueue[k].updPkts > 0
               /\ "REDUNDANT" \notin sess.pSndQueue[k].privFlags )
             => \E f \in Handed(last') :
                   /\ f.elt = sess.pSndQueue[k].id
                   /\ f.head.datasetLength = 0
                   /\ f.data = <<>>
                   /\ f.size = TRDP_MIN_PD_HEADER_SIZE
GetSub ==
    /\ sess.pRcvQueue[1].getPkts < MaxGets
    /\ \E b \in GetSizes, pData \in {NullData, Data(<<>>)} :
         LET e == [sess.pRcvQueue[1] EXCEPT !.getPkts = @ + 1] IN
         \E r \in {trdp_pdGet(sess, e, NoMarshall, pData, b)} :
           /\ sess' = SetRcv(sess, 1, e)
           /\ last' = [ op |-> "Get", ret |-> r.ret, written |-> r.written,
                        out |-> r.out, size |-> r.size, bufSize |-> b, pData |-> pData ]
    /\ UNCHANGED <<peer, wire, now, inp, hist>>

\* trdp_pdReceive of a data frame for the subscriber, or for nobody
ReceiveGet ==
    /\ sess.stats.numRcv < MaxRcv
    /\ \E rx \in { RxFrame(TRDP_MSG_PD, 1, U32(1), 5, <<7>>, TRUE),
                    RxFrame(TRDP_MSG_PD, 1, U32(2), 5, <<7, 8>>, TRUE),
                    RxFrame(TRDP_MSG_PD, 9, U32(1), 5, <<7>>, TRUE) } :
       \E r \in {trdp_pdReceive(sess, now, rx, {})} :
         /\ sess' = r.s
         /\ last' = [op |-> "Receive", err |-> r.err, accepted |-> r.accepted, rx |-> rx]
    /\ UNCHANGED <<peer, wire, now, inp, hist>>

SpecGet == InitRecv /\ [][Tick \/ ReceiveGet \/ HandleTimeOuts \/ GetSub]_vars

\* C16: trdp_pdGet returns NODATA_ERR whenever the element has
\* INVALID_DATA (also when it has TIMED_OUT too), TIMEOUT_ERR whenever it
\* has TIMED_OUT without INVALID_DATA, and copies the payload only when it
\* has neither flag; in both error cases nothing is written to the buffer
\* or to the size.
C16_GetOrder ==
    last.op = "Get" =>
        LET e == sess.pRcvQueue[1] IN
        /\ ("INVALID_DATA" \in e.privFlags)
              => last.ret = "NODATA_ERR" /\ ~last.written
        /\ ("TIMED_OUT" \in e.privFlags /\ "INVALID_DATA" \notin e.privFlags)
              => last.ret = "TIMEOUT_ERR" /\ ~last.written
        /\ ({"TIMED_OUT", "INVALID_DATA"} \cap e.privFlags = {})
              => /\ last.ret \notin {"NODATA_ERR", "TIMEOUT_ERR"}
                 /\ (last.pData.ptr # 0 /\ last.bufSize >= e.dataSize)
                       => /\ last.ret = "NO_ERR" /\ last.written
                          /\ last.size = e.dataSize
                          /\ last.out = Bytes(sess.mem[e.pFrame].data, e.dataSize)
        /\ last.written => {"TIMED_OUT", "INVALID_DATA"} \cap e.privFlags = {}

\* a Get of a subscription that received data and then timed out
C16_Witness ==
    /\ last.op = "Get"
    /\ last.pData.ptr # 0
    /\ "TIMED_OUT" \in sess.pRcvQueue[1].privFlags
    /\ "INVALID_DATA" \notin sess.pRcvQueue[1].privFlags
    /\ sess.pRcvQueue[1].dataSize > 0
    /\ last.ret = "TIMEOUT_ERR"

(***************************************************************************)
(* Specification SpecOwn: both queues of one session                       *)
(***************************************************************************)
\* Two subscribers of comId 1 (one filtering on source 5 with a timeout,
\* one taking any source without), a cyclic publisher of comId 1 created
\* without data, a publisher of comId 2 with interval 0 and valid data,
\* and a queued request.
InitOwn ==
    /\ sess = Request(
                trdp_pdPut(
                  AddSend(
                    AddSend(
                      AddRecv(
                        AddRecv(OpenSession(0, 0),
                                NewElement(3, 1, 5, 0, 0, 0, 2, {"CALLBACK"}, "subCb"), 3),
                        NewElement(4, 1, 0, 0, 0, 0, 0, {}, "NULL"), 0),
                      NewElement(1, 1, 10, 20, 0, 0, 1, {}, "NULL"),
                      TRDP_MSG_PD, 0, 0, 0, 1),
                    NewElement(5, 2, 10, 21, 0, 0, 0, {}, "NULL"),
                    TRDP_MSG_PD, 1, 0, 0, 1),
                  2, NoMarshall, Data(<<7>>), 1, TRUE).s,
                2, 9, 0, 20, 0, 0, "NULL", 1)
    /\ peer = OpenSession(0, 0)
    /\ wire = <<>>
    /\ now = 1
    /\ inp = <<>>
    /\ hist = [hi |-> NoneHanded, toCbs |-> 0, toCnt |-> 0]
    /\ last = Outputs("init", NoOutput, {})

\* trdp_pdReceive of a data frame or of a pull request; swapped: the
\* subscribers whose pFrame the call changed
ReceiveOwn ==
    /\ sess.stats.numRcv < MaxRcv
    /\ \E rx \in { RxFrame(TRDP_MSG_PD, 1, U32(1), 5, <<7>>, TRUE),
                    RxFrame(TRDP_MSG_PD, 1, U32(1), 6, <<7, 8>>, TRUE),
                    PullFrame(1, 0, 30) } :
       \E r \in {trdp_pdReceive(sess, now, rx, {})} :
         /\ sess' = r.s
         /\ last' = [ op |-> "Receive", err |-> r.err, accepted |-> r.accepted,
                      sent |-> r.sent, rx |-> rx,
                      swapped |-> {k \in 1..Len(sess.pRcvQueue) :
                                     r.s.pRcvQueue[k].pFrame # sess.pRcvQueue[k].pFrame} ]
         /\ hist' = [hist EXCEPT !.hi = Record(@, r.sent \o r.failed)]
    /\ UNCHANGED <<peer, wire, now, inp>>

\* tlp_put of the first data on the publisher created without data: the
\* buffer is replaced by a larger one, unless the allocation fails
PutOwn ==
    /\ "INVALID_DATA" \in sess.pSndQueue[1].privFlags
    /\ \E allocOk \in BOOLEAN :
       \E r \in {trdp_pdPut(sess, 1, NoMarshall, Data(<<1>>), 1, allocOk)} :
         /\ sess' = r.s
         /\ last' = [op |-> "Put", err |-> r.ret]
    /\ UNCHANGED <<peer, wire, now, inp, hist>>

SpecOwn == InitOwn /\ [][Tick \/ PutOwn \/ SendDue \/ ReceiveOwn \/ HandleTimeOuts]_vars

\* The buffers held by a session: pNewFrame and the pFrame of every
\* element of the two queues.
C17_Buffers(s) ==
    <<s.pNewFrame>>
    \o [k \in 1..Len(s.pSndQueue) |-> s.pSndQueue[k].pFrame]
    \o [k \in 1..Len(s.pRcvQueue) |-> s.pRcvQueue[k].pFrame]

C17_Distinct(s) ==
    \A i, j \in 1..Len(C17_Buffers(s)) :
        (i # j) => (C17_Buffers(s)[i] # C17_Buffers(s)[j])

\* C17: after any sequence of Put, SendDue, Receive and HandleTimeouts the
\* pFrame of every queued element and the session's pNewFrame are pairwise
\* distinct buffers, and one Receive changes the pFrame of at most one
\* subscriber.
C17_ExclusiveBuffers ==
    /\ C17_Distinct(sess)
    /\ (last.op = "Receive") => (Cardinality(last.swapped) <= 1)

\* a frame that both subscribers match has been accepted, after the
\* publisher's buffer was replaced by a late Put
C17_Witness ==
    /\ last.op = "Receive"
    /\ last.accepted # 0
    /\ last.rx.srcIpAddr = 5
    /\ Cardinality(last.swapped) = 1
    /\ sess.pNewFrame # 1
    /\ sess.pSndQueue[1].dataSize > 0
    /\ Len(sess.pRcvQueue) = 2

\* C18: in a SendDue pass an element is processed (emitted if it can be,
\* its timer advanced, its request flag reset) if and only if its interval
\* is not 0 and its timeToGo is not later than now, or REQ_2B_SENT is set;
\* an element with interval 0 is not emitted unless REQ_2B_SENT is set, and
\* an element that is not eligible is left as it was, its frame included.
C18_Eligible(e) ==
    (e.interval # 0 /\ e.timeToGo <= now) \/ ("REQ_2B_SENT" \in e.privFlags)

C18_Step ==
    (last'.op = "SendDue") =>
        \A k \in 1..Len(sess.pSndQueue) :
            LET e == sess.pSndQueue[k]
                emitted == \E f \in Handed(last') : f.elt = e.id
                kept == \E j \in 1..Len(sess'.pSndQueue) : sess'.pSndQueue[j] = e
            IN
            /\ ~C18_Eligible(e) =>
                  /\ ~emitted
                  /\ kept
                  /\ sess'.mem[e.pFrame] = sess.mem[e.pFrame]
            /\ C18_Eligible(e) =>
                  /\ ("INVALID_DATA" \notin e.privFlags) => emitted
                  /\ \A j \in 1..Len(sess'.pSndQueue) :
                        (sess'.pSndQueue[j].id = e.id) =>
                           /\ "REQ_2B_SENT" \notin sess'.pSndQueue[j].privFlags
                           /\ (e.interval # 0 /\ "REQ_2B_SENT" \notin e.privFlags)
                                 => sess'.pSndQueue[j].timeToGo > now
            /\ (e.interval = 0 /\ "REQ_2B_SENT" \notin e.privFlags) => ~emitted
C18_EligibleOnly == [][C18_Step]_vars

\* a pass that sent the due cyclic publisher and the request and left the
\* publisher with interval 0 alone
C18_Witness ==
    /\ last.op = "SendDue"
    /\ last.due = {1, 2}
    /\ \E f \in Handed(last) : f.elt = 1
    /\ \E f \in Handed(last) : f.elt = 2
    /\ \E j \in 1..Len(sess.pSndQueue) :
          sess.pSndQueue[j].id = 5 /\ sess.pSndQueue[j].numRxTx = 0

\* C19: a pull request does not disturb the schedule of the cyclic
\* publisher it pulls: in the pass that processes the publisher because
\* REQ_2B_SENT is set, its frame goes out with msgType PP; after the pass
\* the msgType of its frame is PD again, REQ_2B_SENT is clear and timeToGo
\* has the value it had before the pull.  After every pass the frame of a
\* cyclic publisher has msgType PD.
C19_Step ==
    /\ (last'.op = "Receive" /\ last'.pulled # 0) =>
          LET e == sess.pSndQueue[last'.pulled]
              e1 == sess'.pSndQueue[last'.pulled]
          IN  (e.interval # 0) =>
                 /\ \A f \in Handed(last') :
                       (f.elt = e.id) => (f.head.msgType = TRDP_MSG_PP)
                 /\ FrameHead(sess', e1).msgType = TRDP_MSG_PD
                 /\ "REQ_2B_SENT" \notin e1.privFlags
                 /\ e1.timeToGo = e.timeToGo
    /\ (last'.op \in {"SendDue", "Receive"}) =>
          \A k \in 1..Len(sess'.pSndQueue) :
              (sess'.pSndQueue[k].interval # 0)
                 => FrameHead(sess', sess'.pSndQueue[k]).msgType = TRDP_MSG_PD
C19_PullKeepsSchedule == [][C19_Step]_vars

\* C20: when a send pass processes a due cyclic element that is not a pull
\* reply, its new timeToGo is the old timeToGo + interval if that is later
\* than now, otherwise now + interval; after the pass its timeToGo is
\* later than the time of the visit and the pass has emitted the element
\* at most once.
C20_Step ==
    (\/ last'.op = "SendDue"
     \/ (last'.op = "Receive" /\ last'.pulled # 0)) =>
        \A k \in 1..Len(sess.pSndQueue) :
            LET e == sess.pSndQueue[k]
                e1 == sess'.pSndQueue[k]
            IN  (/\ e.interval # 0
                 /\ e.timeToGo <= now
                 /\ "REQ_2B_SENT" \notin e.privFlags
                 /\ (last'.op = "Receive") => (k # last'.pulled)) =>
                    /\ e1.timeToGo = IF e.timeToGo + e.interval > now
                                     THEN e.timeToGo + e.interval
                                     ELSE now + e.interval
                    /\ e1.timeToGo > now
                    /\ Cardinality(FramesOf(last'.sent \o last'.failed, e.id)) <= 1
C20_TimerAdvance == [][C20_Step]_vars

\* the cyclic publisher was sent for the first time in a pass at time 3,
\* one interval after it fell due, and is next due one interval later
C20_Witness ==
    /\ last.op = "SendDue"
    /\ now = 3
    /\ 1 \in last.due
    /\ Cardinality(FramesOf(last.sent, 1)) = 1
    /\ sess.pSndQueue[1].timeToGo = now + sess.pSndQueue[1].interval
    /\ sess.pSndQueue[1].numRxTx = 1

\* C21: in a SendDue pass an eligible element with valid data whose frame
\* carries an etbTopoCnt or opTrnTopoCnt that is nonzero and differs from
\* the session's nonzero value is not handed to the transport, and the
\* pass reports TopoErr; if for each counter either side is zero or both
\* are equal, the element is handed to the transport.
C21_Blocked(s, h) ==
    \/ (h.etbTopoCnt # 0 /\ s.etbTopoCnt # 0 /\ h.etbTopoCnt # s.etbTopoCnt)
    \/ (h.opTrnTopoCnt # 0 /\ s.opTrnTopoCnt # 0 /\ h.opTrnTopoCnt # s.opTrnTopoCnt)

C21_StepAsStated ==
    (last'.op = "SendDue") =>
        \A k \in 1..Len(sess.pSndQueue) :
            LET e == sess.pSndQueue[k] IN
            (e.id \in last'.due /\ "INVALID_DATA" \notin e.privFlags) =>
                IF C21_Blocked(sess, FrameHead(sess, e))
                THEN /\ FramesOf(last'.sent \o last'.failed, e.id) = {}
                     /\ last'.err = "TOPO_ERR"
                ELSE FramesOf(last'.sent \o last'.failed, e.id) # {}
C21_TopoBlocksAsStated == [][C21_StepAsStated]_vars

\* C21 as amended: the pass reports TopoErr unless the send of a later
\* element of the same pass fails, whose error is then the one reported.
C21_Step ==
    (last'.op = "SendDue") =>
        \A k \in 1..Len(sess.pSndQueue) :
            LET e == sess.pSndQueue[k] IN
            (e.id \in last'.due /\ "INVALID_DATA" \notin e.privFlags) =>
                IF C21_Blocked(sess, FrameHead(sess, e))
                THEN /\ FramesOf(last'.sent \o last'.failed, e.id) = {}
                     /\ \/ last'.err = "TOPO_ERR"
                        \/ /\ last'.err = "IO_ERR"
                           /\ \E j \in (k + 1)..Len(sess.pSndQueue) :
                                 FramesOf(last'.failed, sess.pSndQueue[j].id) # {}
                ELSE FramesOf(last'.sent \o last'.failed, e.id) # {}
C21_TopoBlocks == [][C21_Step]_vars

\* a pass that reported TopoErr for the cyclic publisher, blocked by its
\* opTrnTopoCnt alone, and sent a request
C21_Witness ==
    /\ last.op = "SendDue"
    /\ last.err = "TOPO_ERR"
    /\ 1 \in last.due
    /\ FramesOf(last.sent \o last.failed, 1) = {}
    /\ FrameHead(sess, sess.pSndQueue[1]).opTrnTopoCnt = 1
    /\ FrameHead(sess, sess.pSndQueue[1]).etbTopoCnt = 0
    /\ sess.opTrnTopoCnt = 2
    /\ last.sent # <<>>

\* C22: a publisher element marked REDUNDANT is silent: no send pass hands
\* its frame to the transport or invokes its callback, numSend counts only
\* the frames of other elements and its numRxTx does not change, while its
\* timer advances when it is due as it does for an element that is sent.
C22_Step ==
    (\/ last'.op = "SendDue"
     \/ (last'.op = "Receive" /\ last'.pulled # 0)) =>
        /\ sess'.stats.numSend = sess.stats.numSend + Len(last'.sent)
        /\ \A k \in 1..Len(sess.pSndQueue) :
              LET e == sess.pSndQueue[k]
                  e1 == sess'.pSndQueue[k]
              IN  ("REDUNDANT" \in e.privFlags) =>
                     /\ FramesOf(last'.sent \o last'.failed, e.id) = {}
                     /\ \A n \in 1..Len(last'.cbs) : last'.cbs[n].elt # e.id
                     /\ e1.numRxTx = e.numRxTx
                     /\ (/\ e.interval # 0
                         /\ e.timeToGo <= now
                         /\ (last'.op = "Receive") => (k # last'.pulled)) =>
                            e1.timeToGo = IF e.timeToGo + e.interval > now
                                          THEN e.timeToGo + e.interval
                                          ELSE now + e.interval
C22_RedundantSilent == [][C22_Step]_vars

\* a SendDue pass in which the redundant cyclic publisher, holding valid
\* data, was due: nothing was sent and the timer moved on
C22_Witness ==
    /\ last.op = "SendDue"
    /\ 1 \in last.due
    /\ "REDUNDANT" \in sess.pSndQueue[1].privFlags
    /\ "INVALID_DATA" \notin sess.pSndQueue[1].privFlags
    /\ sess.pSndQueue[1].dataSize > 0
    /\ last.sent = <<>>
    /\ last.cbs = <<>>
    /\ sess.pSndQueue[1].timeToGo > now
    /\ sess.pSndQueue[1].curSeqCnt # U32(0)

\* C23: when the transport send of an element fails in a SendDue pass,
\* every later eligible element is still processed and handed to the
\* transport in the same pass; numSend and an element's numRxTx count
\* only the successful sends; the pass returns the last result other than
\* NoErr (NoErr if there was none).
C23_Outcome(k) ==
    LET e == sess.pSndQueue[k] IN
    IF (e.id \notin last'.due) \/ ("INVALID_DATA" \in e.privFlags) THEN "NO_ERR"
    ELSE IF C21_Blocked(sess, FrameHead(sess, e)) THEN "TOPO_ERR"
    ELSE IF FramesOf(last'.failed, e.id) # {} THEN "IO_ERR"
    ELSE "NO_ERR"

C23_Step ==
    (last'.op = "SendDue") =>
        LET bad == {k \in 1..Len(sess.pSndQueue) : C23_Outcome(k) # "NO_ERR"} IN
        /\ \A k \in 1..Len(sess.pSndQueue) :
              LET e == sess.pSndQueue[k] IN
              /\ (/\ e.id \in last'.due
                  /\ "INVALID_DATA" \notin e.privFlags
                  /\ ~C21_Blocked(sess, FrameHead(sess, e)))
                    => Cardinality(FramesOf(last'.sent \o last'.failed, e.id)) = 1
              /\ \A j \in 1..Len(sess'.pSndQueue) :
                    (sess'.pSndQueue[j].id = e.id) =>
                       sess'.pSndQueue[j].numRxTx
                          = e.numRxTx + Cardinality(FramesOf(last'.sent, e.id))
              /\ \A n \in 1..Len(last'.removed) :
                    (last'.removed[n].id = e.id) =>
                       last'.removed[n].numRxTx
                          = e.numRxTx + Cardinality(FramesOf(last'.sent, e.id))
        /\ sess'.stats.numSend = sess.stats.numSend + Len(last'.sent)
        /\ last'.err = IF bad = {} THEN "NO_ERR"
                       ELSE C23_Outcome(CHOOSE k \in bad : \A j \in bad : j <= k)
C23_BestEffort == [][C23_Step]_vars

\* the send of the cyclic publisher failed and the request queued behind
\* it was sent in the same pass, which returned IoErr
C23_Witness ==
    /\ last.op = "SendDue"
    /\ FramesOf(last.failed, 1) # {}
    /\ last.sent # <<>>
    /\ last.removed # <<>>
    /\ last.err = "IO_ERR"
    /\ sess.pSndQueue[1].numRxTx = 0
    /\ sess.stats.numSend = Len(last.sent)

(***************************************************************************)
(* Specification SpecGate: the checks of trdp_pdReceive                    *)
(***************************************************************************)
\* A session with etbTopoCnt 0 or 1, a subscriber of comId 1 without
\* topology counters, a subscriber of comId 3 with the counters (2, 1) and
\* a publisher of comId 7 with valid data; both subscribers have a callback.
InitGate ==
    /\ \E etbTopoCnt \in {0, 1} :
         sess = trdp_pdPut(
                  AddSend(
                    AddRecv(
                      AddRecv(OpenSession(etbTopoCnt, 0),
                              NewElement(3, 1, 0, 0, 0, 0, 0, {"CALLBACK"}, "subCb"), 0),
                      NewElement(4, 3, 0, 0, 2, 1, 0, {"CALLBACK"}, "subCb"), 0),
                    NewElement(1, 7, 10, 20, 0, 0, 0, {}, "NULL"),
                    TRDP_MSG_PD, 1, 0, 0, 1),
                  1, NoMarshall, Data(<<7>>), 1, TRUE).s
    /\ peer = OpenSession(0, 0)
    /\ wire = <<>>
    /\ now = 1
    /\ inp = <<>>
    /\ hist = <<>>
    /\ last = [op |-> "init"]

\* trdp_pdReceive of a data frame for one of the subscribers or of a pull
\* request for the publisher, with topology counters, or of a frame with a
\* bad FCS or a bad message type.
ReceiveGate ==
    /\ sess.stats.numRcv + sess.stats.numCrcErr + sess.stats.numProtErr < MaxRcv
    /\ \E f \in { RxFrame(TRDP_MSG_PD, 1, U32(1), 5, <<7>>, TRUE),
                   RxFrame(TRDP_MSG_PD, 3, U32(1), 5, <<7>>, TRUE),
                   RxFrame(TRDP_MSG_PD, 3, U32(2), 5, <<8, 9>>, TRUE),
                   RxFrame(TRDP_MSG_PR, 7, U32(1), 5, <<>>, TRUE) },
          topo \in { <<0, 0>>, <<1, 0>>, <<1, 1>>, <<2, 1>>, <<2, 0>> },
          bad \in { "none", "fcs", "type" } :
       \E rx \in { IF bad = "fcs"
                   THEN [f EXCEPT !.head.frameCheckSum = @ + 1]
                   ELSE [f EXCEPT !.head =
                           WithFCS([@ EXCEPT !.etbTopoCnt = topo[1],
                                             !.opTrnTopoCnt = topo[2],
                                             !.msgType = IF bad = "type" THEN 0 ELSE @])] } :
       \E r \in {trdp_pdReceive(sess, now, rx, {})} :
         /\ sess' = r.s
         /\ last' = [ op |-> "Receive", err |-> r.err, accepted |-> r.accepted,
                      matched |-> r.matched, cbs |-> r.cbs, sent |-> r.sent,
                      rx |-> rx, chk |-> trdp_pdCheck(rx.head, rx.size) ]
    /\ UNCHANGED <<peer, wire, now, inp, hist>>

SpecGate == InitGate /\ [][ReceiveGate]_vars

\* C24: every frame read by Receive is counted in exactly one of numRcv,
\* numCrcErr and numProtErr, according to the result of the header check
\* (NoErr, CrcErr, WireErr); on CrcErr and WireErr Receive returns that
\* error and leaves the queues, the buffer pointers and the buffers of the
\* elements as they were and makes no callback.
C24_Step ==
    (last'.op = "Receive") =>
        LET d == [c \in {"numRcv", "numCrcErr", "numProtErr"} |->
                    sess'.stats[c] - sess.stats[c]]
        IN
        /\ d["numRcv"] + d["numCrcErr"] + d["numProtErr"] = 1
        /\ d["numRcv"] = 1 <=> last'.chk = "NO_ERR"
        /\ d["numCrcErr"] = 1 <=> last'.chk = "CRC_ERR"
        /\ d["numProtErr"] = 1 <=> last'.chk = "WIRE_ERR"
        /\ (last'.chk # "NO_ERR") =>
              /\ last'.err = last'.chk
              /\ sess'.pRcvQueue = sess.pRcvQueue
              /\ sess'.pSndQueue = sess.pSndQueue
              /\ sess'.pNewFrame = sess.pNewFrame
              /\ \A p \in (DOMAIN sess.mem) \ {sess.pNewFrame} : sess'.mem[p] = sess.mem[p]
              /\ last'.cbs = <<>>
              /\ last'.sent = <<>>
C24_CountedOnce == [][C24_Step]_vars

\* a frame with a bad message type arrived after one with a bad FCS
C24_Witness ==
    /\ last.op = "Receive"
    /\ last.chk = "WIRE_ERR"
    /\ last.err = "WIRE_ERR"
    /\ sess.stats.numProtErr = 1
    /\ sess.stats.numCrcErr = 1
    /\ sess.stats.numRcv = 0

\* C25: a frame that passes the header check but carries a nonzero
\* etbTopoCnt or opTrnTopoCnt that differs from a nonzero value of the session
\* makes Receive count one numTopoErr and return TopoErr before pull requests
\* are handled or subscribers matched: nothing is sent, no element of either
\* queue is modified and no callback is made.
C25_Disagree(a, b) == a # 0 /\ b # 0 /\ a # b
C25_Step ==
    ( /\ last'.op = "Receive"
      /\ last'.chk = "NO_ERR"
      /\ \/ C25_Disagree(sess.etbTopoCnt, last'.rx.head.etbTopoCnt)
         \/ C25_Disagree(sess.opTrnTopoCnt, last'.rx.head.opTrnTopoCnt) )
    => /\ last'.err = "TOPO_ERR"
       /\ sess'.stats.numTopoErr = sess.stats.numTopoErr + 1
       /\ sess'.pRcvQueue = sess.pRcvQueue
       /\ sess'.pSndQueue = sess.pSndQueue
       /\ last'.sent = <<>>
       /\ last'.cbs = <<>>
       /\ last'.matched = 0
C25_SessionGate == [][C25_Step]_vars

\* a pull request for the publisher with etbTopoCnt 2 reached the session
\* whose etbTopoCnt is 1
C25_Witness ==
    /\ last.op = "Receive"
    /\ last.chk = "NO_ERR"
    /\ last.rx.head.msgType = TRDP_MSG_PR
    /\ last.rx.head.etbTopoCnt = 2
    /\ sess.etbTopoCnt = 1
    /\ last.err = "TOPO_ERR"
    /\ sess.stats.numTopoErr = 1
    /\ last.sent = <<>>

\* The publisher a pull request (not the statistics pull) asks for, and the
\* replies handed to the transport for it.
C26_Asked(s, h) ==
    trdp_queueFindComId(s.pSndQueue, IF h.replyComId = 0 THEN h.comId ELSE h.replyComId)
C26_Replies(l, id) == {f \in Handed(l) : f.elt = id /\ f.head.msgType = TRDP_MSG_PP}
C26_Routed(s, l, s2, k) ==
    LET e == s.pSndQueue[k] IN
    /\ Cardinality(C26_Replies(l, e.id)) = 1
    /\ Cardinality(FramesOf(l.sent, e.id)) + Cardinality(FramesOf(l.failed, e.id)) = 1
    /\ \A f \in C26_Replies(l, e.id) :
          f.destIp = IF l.rx.head.replyIpAddress # 0 THEN l.rx.head.replyIpAddress
                     ELSE l.rx.srcIpAddr
    /\ ~HasFlag(ById(s2.pSndQueue, e.id).privFlags, "REQ_2B_SENT")

\* The claim C26 as stated: every publisher found with valid data answers.
C26_StepAsStated ==
    (last'.op = "Receive" /\ last'.rx.head.msgType = TRDP_MSG_PR
       /\ last'.rx.head.comId # TRDP_STATISTICS_PULL_COMID) =>
        LET k == C26_Asked(sess, last'.rx.head) IN
        /\ (k # 0 /\ HasValidData(sess.pSndQueue[k])) => C26_Routed(sess, last', sess', k)
        /\ (k = 0) => Handed(last') = {}
C26_PullRoutedAsStated == [][C26_StepAsStated]_vars

\* C26: on a valid pull request (not the statistics pull) Receive looks up
\* the publisher by the frame's replyComId, or by its comId when replyComId
\* is 0; if one is found with valid data that is not a redundant follower
\* and whose frame passes the publisher topology check, exactly one PP reply
\* for it is handed to the transport before Receive returns, addressed to
\* the frame's replyIpAddress if nonzero and otherwise to the frame's source
\* address, and on return REQ_2B_SENT is clear; if no publisher is found
\* nothing is sent.
C26_Step ==
    (last'.op = "Receive" /\ last'.rx.head.msgType = TRDP_MSG_PR
       /\ last'.rx.head.comId # TRDP_STATISTICS_PULL_COMID) =>
        LET k == C26_Asked(sess, last'.rx.head) IN
        /\ ( /\ k # 0
             /\ HasValidData(sess.pSndQueue[k])
             /\ ~HasFlag(sess.pSndQueue[k].privFlags, "REDUNDANT")
             /\ sess.pSndQueue[k].socketIdx # TRDP_INVALID_SOCKET_INDEX
             /\ trdp_validTopoCounters(sess.etbTopoCnt, sess.opTrnTopoCnt,
                                       FrameHead(sess, sess.pSndQueue[k]).etbTopoCnt,
                                       FrameHead(sess, sess.pSndQueue[k]).opTrnTopoCnt) )
            => C26_Routed(sess, last', sess', k)
        /\ (k = 0) => Handed(last') = {}
C26_PullRouted == [][C26_Step]_vars

\* the publisher of comId 2 answered a request for comId 9 that names
\* replyComId 2 and no reply address: the reply went to the requester
C26_Witness ==
    /\ last.op = "Receive"
    /\ last.rx.head.replyComId = 2
    /\ last.rx.head.replyIpAddress = 0
    /\ \E f \in Handed(last) :
          /\ f.elt = 2
          /\ f.head.msgType = TRDP_MSG_PP
          /\ f.destIp = 5
    /\ ~HasFlag(ById(sess.pSndQueue, 2).privFlags, "REQ_2B_SENT")

\* What the subscriber's topology gate must leave alone when it blocks.
C27_Kept(e, e2) ==
    /\ e2.curSeqCnt = e.curSeqCnt
    /\ e2.timeToGo = e.timeToGo
    /\ e2.privFlags = e.privFlags
C27_Blocked(s, l, s2, k) ==
    /\ l.err = "TOPO_ERR"
    /\ s2.stats.numTopoErr = s.stats.numTopoErr + 1
    /\ s2.pRcvQueue[k].lastErr = "TOPO_ERR"
    /\ C27_Kept(s.pRcvQueue[k], s2.pRcvQueue[k])
    /\ l.accepted = 0
C27_Passed(s, l, s2) ==
    /\ l.err # "TOPO_ERR"
    /\ s2.stats.numTopoErr = s.stats.numTopoErr

\* The claim C27 as stated: a subscriber with nonzero stored counters
\* accepts only frames that carry its counters.
C27_StepAsStated ==
    (last'.op = "Receive" /\ last'.matched # 0) =>
        LET k == last'.matched
            a == sess.pRcvQueue[k].addr
            h == last'.rx.head
        IN  IF a.etbTopoCnt = 0 /\ a.opTrnTopoCnt = 0
            THEN C27_Passed(sess, last', sess')
            ELSE IF h.etbTopoCnt = a.etbTopoCnt /\ h.opTrnTopoCnt = a.opTrnTopoCnt
            THEN C27_Passed(sess, last', sess')
            ELSE C27_Blocked(sess, last', sess', k)
C27_Step ==
    (last'.op = "Receive" /\ last'.matched # 0) =>
        LET k == last'.matched
            a == sess.pRcvQueue[k].addr
            h == last'.rx.head
        IN  IF a.etbTopoCnt = 0 /\ a.opTrnTopoCnt = 0
            THEN C27_Passed(sess, last', sess')
            ELSE IF /\ h.etbTopoCnt \in {0, a.etbTopoCnt} \/ a.etbTopoCnt = 0
                    /\ h.opTrnTopoCnt \in {0, a.opTrnTopoCnt} \/ a.opTrnTopoCnt = 0
            THEN C27_Passed(sess, last', sess')
            ELSE C27_Blocked(sess, last', sess', k)
C28_SubCbs(l) == {n \in 1..Len(l.cbs) : l.cbs[n].side = "sub"}

\* C28: whenever Receive invokes a subscriber's callback (the TopoErr
\* notification included), the header fields and the payload passed are
\* those of the frame received in this call, which is the subscriber's
\* frame after the exchange of buffers, with the error code of this call;
\* the element's curSeqCnt and lastErr are up to date, and at most one
\* callback of a subscriber is made per call.
C28_Step ==
    (last'.op = "Receive") =>
        /\ Cardinality(C28_SubCbs(last')) <= 1
        /\ \A n \in C28_SubCbs(last') :
             LET cb == last'.cbs[n]
                 h == last'.rx.head
                 e == sess'.pRcvQueue[last'.matched]
             IN  /\ last'.matched # 0
                 /\ cb.elt = e.id
                 /\ cb.resultCode = last'.err
                 /\ cb.comId = h.comId
                 /\ cb.etbTopoCnt = h.etbTopoCnt
                 /\ cb.opTrnTopoCnt = h.opTrnTopoCnt
                 /\ cb.msgType = h.msgType
                 /\ cb.seqCount = h.sequenceCounter
                 /\ cb.protVersion = h.protocolVersion
                 /\ cb.replyComId = h.replyComId
                 /\ cb.replyIpAddr = h.replyIpAddress
                 /\ cb.dataSize = h.datasetLength
                 /\ cb.pData = e.pFrame
                 /\ Bytes(sess'.mem[cb.pData].data, cb.dataSize) = last'.rx.data
                 /\ e.curSeqCnt = cb.seqCount
                 /\ e.lastErr = cb.resultCode
C28_CallbackOfThisFrame == [][C28_Step]_vars

(***************************************************************************)
(* Specification SpecSeq: a subscriber hears more sources than its list    *)
(* of sequence counters holds                                              *)
(***************************************************************************)
\* trdp_pdReceive of a PD frame of the subscribed comId from one of
\* MaxSeqCntEntries + 1 sources; the counter of the first source restarts,
\* repeats or goes on, the others send the counter 1.
ReceiveFrom ==
    /\ sess.stats.numRcv <= MaxSeqCntEntries
    /\ \E srcIp \in 5..(5 + MaxSeqCntEntries), n \in {0, 1, 2} :
       /\ (srcIp = 5 \/ n = 1)
       /\ \E rx \in {RxFrame(TRDP_MSG_PD, 1, U32(n), srcIp, <<7, n>>, TRUE)} :
          \E r \in {trdp_pdReceive(sess, now, rx, {})} :
            /\ sess' = r.s
            /\ last' = [ op |-> "Receive", err |-> r.err, accepted |-> r.accepted,
                         matched |-> r.matched, cbs |-> r.cbs, rx |-> rx ]
    /\ UNCHANGED <<peer, wire, now, inp, hist>>

SpecSeq == InitRecv /\ [][Tick \/ ReceiveFrom \/ HandleTimeOuts]_vars

\* What Receive leaves alone when it ignores a frame for subscriber k.
C29_Ignored(s, l, s2, k) ==
    LET e == s.pRcvQueue[k]
        e2 == s2.pRcvQueue[k]
    IN  /\ l.accepted = 0
        /\ l.cbs = <<>>
        /\ e2.pFrame = e.pFrame
        /\ s2.pNewFrame = s.pNewFrame
        /\ s2.mem[e.pFrame] = s.mem[e.pFrame]
        /\ e2.curSeqCnt = e.curSeqCnt
        /\ e2.numMissed = e.numMissed
        /\ e2.numRxTx = e.numRxTx
        /\ e2.timeToGo = e.timeToGo
        /\ e2.dataSize = e.dataSize
        /\ HasFlag(e2.privFlags, "TIMED_OUT") <=> HasFlag(e.privFlags, "TIMED_OUT")

\* The counter of the frame is not newer than the last one recorded for its
\* source and message type.
C29_NotNewer(e, rx) ==
    LET n == SeqEntry(e.pSeqCntList, rx.srcIpAddr, rx.head.msgType) IN
    /\ n # 0
    /\ ~U32Gt(rx.head.sequenceCounter, e.pSeqCntList[n].lastSeqCnt)

\* The list of the subscriber is full and the source of the frame is not
\* in it.
C29_Full(e, rx) ==
    /\ SeqEntry(e.pSeqCntList, rx.srcIpAddr, rx.head.msgType) = 0
    /\ Len(e.pSeqCntList) >= MaxSeqCntEntries

\* The claim C29 as stated: every frame whose counter repeats or is older
\* than the last one seen from its source is ignored.
C29_StepAsStated ==
    (last'.op = "Receive" /\ last'.matched # 0) =>
        LET k == last'.matched IN
        /\ C29_NotNewer(sess.pRcvQueue[k], last'.rx)
             => (last'.err = "NO_ERR" /\ C29_Ignored(sess, last', sess', k))
        /\ C29_Full(sess.pRcvQueue[k], last'.rx)
             => (last'.err = "MEM_ERR" /\ C29_Ignored(sess, last', sess', k))
C29_DuplicateIgnoredAsStated == [][C29_StepAsStated]_vars

\* C29: a frame whose sequence counter is not zero and is a duplicate of,
\* or older than, the last one seen from the same source and message type
\* is ignored: Receive returns NoErr, the buffers are not exchanged, no
\* callback is made, and the subscriber's curSeqCnt, numMissed, numRxTx,
\* timeToGo, dataSize and TIMED_OUT flag keep their values; when the list of
\* sources is full Receive returns MemErr with the same effects.
C29_Step ==
    (last'.op = "Receive" /\ last'.matched # 0) =>
        LET k == last'.matched IN
        /\ (C29_NotNewer(sess.pRcvQueue[k], last'.rx)
               /\ last'.rx.head.sequenceCounter # U32(0))
             => (last'.err = "NO_ERR" /\ C29_Ignored(sess, last', sess', k))
        /\ C29_Full(sess.pRcvQueue[k], last'.rx)
             => (last'.err = "MEM_ERR" /\ C29_Ignored(sess, last', sess', k))
C29_DuplicateIgnored == [][C29_Step]_vars

\* after a silence that timed the subscriber out, a frame repeating the
\* counter 2 of its source was ignored, and so was the frame of a source the
\* full list has no room for
C29_Witness ==
    /\ last.op = "Receive"
    /\ last.err = "MEM_ERR"
    /\ Len(sess.pRcvQueue[1].pSeqCntList) = MaxSeqCntEntries
    /\ sess.pRcvQueue[1].curSeqCnt = U32(2)
    /\ sess.pRcvQueue[1].numRxTx = MaxSeqCntEntries
    /\ HasFlag(sess.pRcvQueue[1].privFlags, "TIMED_OUT")

(***************************************************************************)
(* trdp_pdCheckPending                                                     *)
(***************************************************************************)
\* One of the two loops of trdp_pdCheckPending from position k of queue q
\* on (lines 739-745 for the receive queue, where elements that timed out
\* are exempt, and 761-769 for the send queue): nextJob takes the timeToGo
\* of a cyclic element that is earlier, or of any cyclic element while
\* nextJob is not set (timerisset: not zero).
RECURSIVE PendingScan(_, _, _, _)
PendingScan(q, k, nextJob, exemptTimedOut) ==
    IF k > Len(q) THEN nextJob
    ELSE PendingScan(q, k + 1,
            IF /\ ~(exemptTimedOut /\ HasFlag(q[k].privFlags, "TIMED_OUT"))
               /\ q[k].interval # 0
               /\ (q[k].timeToGo < nextJob \/ nextJob = 0)
            THEN q[k].timeToGo
            ELSE nextJob,
            exemptTimedOut)

\* trdp_pdCheckPending (lines 731-770): nextJob is cleared and rebuilt from
\* the receive queue and then the send queue; the sockets of the
\* subscribers are added to the descriptor set and the highest one is
\* reported.
trdp_pdCheckPending(s, pFileDesc, pNoDesc) ==
    LET socks == { s.iface[s.pRcvQueue[k].socketIdx].sock :
                     k \in { j \in 1..Len(s.pRcvQueue) :
                               /\ s.pRcvQueue[j].socketIdx # TRDP_INVALID_SOCKET_INDEX
                               /\ s.iface[s.pRcvQueue[j].socketIdx].sock # -1 } }
        added == socks \ pFileDesc
    IN  [ s |-> [s EXCEPT !.nextJob =
                    PendingScan(s.pSndQueue, 1, PendingScan(s.pRcvQueue, 1, 0, TRUE), FALSE)],
          pFileDesc |-> pFileDesc \cup socks,
          pNoDesc |-> IF \E d \in added : d > pNoDesc
                      THEN CHOOSE d \in added : \A c \in added : c <= d
                      ELSE pNoDesc ]

(***************************************************************************)
(* Specification SpecPend: trdp_pdCheckPending on queues of fewer than     *)
(* MaxQueue subscribers and publishers, pull-only and cyclic, armed or     *)
(* not, timed out or not                                                   *)
(***************************************************************************)
\* tlp_subscribe and tlp_publish of the elements; a subscriber is given by
\* its interval, its timeToGo and whether it timed out, a publisher by its
\* interval and its timeToGo.
InitPend ==
    /\ \E nr \in 0..(MaxQueue - 1), ns \in 0..(MaxQueue - 1) :
       \E subs \in [1..nr -> { <<0, 0, FALSE>>, <<1, 0, FALSE>>, <<1, 20000, FALSE>>,
                               <<1, 70000, FALSE>>, <<1, 20000, TRUE>> }],
          pubs \in [1..ns -> { <<0, 0>>, <<100000, 0>>, <<100000, 50000>>,
                               <<100000, 1000000>> }] :
         LET s1 == PublishAll(OpenSession(0, 0),
                              [k \in 1..ns |-> pubs[k][1]], [k \in 1..ns |-> pubs[k][2]])
             rcv == [ k \in 1..nr |->
                        [ AddRecv(s1, NewElement(10 + k, 10 + k, 0, 0, 0, 0, subs[k][1],
                                                 {}, "NULL"), subs[k][2]).pRcvQueue[1]
                          EXCEPT !.privFlags = IF subs[k][3] THEN @ \cup {"TIMED_OUT"} ELSE @ ] ]
         IN  sess = [s1 EXCEPT !.pRcvQueue = rcv,
                               !.iface[1].usage = @ + nr,
                               !.nextJob = 50000]
    /\ peer = OpenSession(0, 0)
    /\ wire = <<>>
    /\ now = 0
    /\ inp = <<>>
    /\ hist = <<>>
    /\ last = [op |-> "init"]

\* trdp_pdCheckPending, once, with an empty descriptor set or one that
\* holds the socket already
CheckPending ==
    /\ last.op = "init"
    /\ \E pFileDesc \in {{}, {3}} :
       \E r \in {trdp_pdCheckPending(sess, pFileDesc, 0)} :
         /\ sess' = r.s
         /\ last' = [op |-> "CheckPending", pFileDesc |-> r.pFileDesc, pNoDesc |-> r.pNoDesc]
    /\ UNCHANGED <<peer, wire, now, inp, hist>>

SpecPend == InitPend /\ [][CheckPending]_vars

\* The timeToGo of the elements CheckPending has to consider: subscribers
\* with an interval that did not time out, publishers with an interval.
C30_Deadlines(s) ==
    { s.pRcvQueue[k].timeToGo :
        k \in { j \in 1..Len(s.pRcvQueue) :
                  s.pRcvQueue[j].interval # 0
                  /\ ~HasFlag(s.pRcvQueue[j].privFlags, "TIMED_OUT") } }
    \cup { s.pSndQueue[k].timeToGo :
             k \in { j \in 1..Len(s.pSndQueue) : s.pSndQueue[j].interval # 0 } }

\* C30: after CheckPending nextJob is the minimum timeToGo over the
\* subscribers with an interval that are not timed out and the publishers
\* with an interval, whatever the queues hold and in whatever order, a
\* timeToGo of zero included; it is unset (zero) when there is no such
\* element.
C30_NextJobIsMinimum ==
    (last.op = "CheckPending") =>
        IF C30_Deadlines(sess) = {}
        THEN sess.nextJob = 0
        ELSE /\ sess.nextJob \in C30_Deadlines(sess)
             /\ \A d \in C30_Deadlines(sess) : sess.nextJob <= d

(***************************************************************************)
(* trdp_pdCheckListenSocks                                                 *)
(***************************************************************************)
\* A read loop that calls trdp_pdReceive once, whatever the mode.
ListenRead_once(s, t, sock, q, nonBlocking, acc) ==
    LET r == trdp_pdReceive(s, t, IF q = <<>> THEN [err |-> "BLOCK_ERR"] ELSE Head(q), {})
    IN  [ s |-> r.s, q |-> IF q = <<>> THEN q ELSE Tail(q), err |-> r.err,
          acc |-> [ reads |-> Append(acc.reads, [sock |-> sock, err |-> r.err]),
                    cbs |-> acc.cbs \o r.cbs ] ]

\* The read loop on one socket (lines 884-890): trdp_pdReceive is called
\* once, and again as long as it returned no error and the session is
\* non-blocking.  q holds the datagrams queued on the socket; a read from
\* an empty non-blocking socket yields TRDP_BLOCK_ERR.  reads collects the
\* result of every call.
RECURSIVE ListenRead(_, _, _, _, _, _)
ListenRead(s, t, sock, q, nonBlocking, acc) ==
    LET r == trdp_pdReceive(s, t, IF q = <<>> THEN [err |-> "BLOCK_ERR"] ELSE Head(q), {})
        q1 == IF q = <<>> THEN q ELSE Tail(q)
        acc1 == [ reads |-> Append(acc.reads, [sock |-> sock, err |-> r.err]),
                  cbs |-> acc.cbs \o r.cbs ]
    IN  IF r.err = "NO_ERR" /\ nonBlocking
        THEN ListenRead(r.s, t, sock, q1, nonBlocking, acc1)
        ELSE [s |-> r.s, q |-> q1, err |-> r.err, acc |-> acc1]

\* The loop over the receive queue from position k on (lines 873-913); x
\* holds the session, the queued datagrams per socket, the descriptor set,
\* the count and the result so far.
RECURSIVE ListenLoop(_, _, _)
ListenLoop(x, k, t) ==
    IF k > Len(x.s.pRcvQueue) THEN x
    ELSE LET e == x.s.pRcvQueue[k]
             sock == x.s.iface[e.socketIdx].sock
         IN  IF e.socketIdx # TRDP_INVALID_SOCKET_INDEX /\ sock \in x.pRfds
             THEN LET r == ListenRead(x.s, t, sock, x.inq[sock],
                                      ~HasFlag(x.s.option, "BLOCK"), x.acc)
                  IN  ListenLoop([ s |-> r.s,
                                   inq |-> [x.inq EXCEPT ![sock] = r.q],
                                   pRfds |-> x.pRfds \ {sock},
                                   pCount |-> x.pCount - 1,
                                   result |-> IF r.err = "NO_ERR" THEN x.result ELSE r.err,
                                   acc |-> r.acc ],
                                 k + 1, t)
             ELSE ListenLoop(x, k + 1, t)

\* trdp_pdCheckListenSocks (lines 853-916) at time t.  A pointer is a
\* sequence: empty for NULL, else holding the value pointed to.
trdp_pdCheckListenSocks(s, t, inq, pRfds, pCount) ==
    IF Len(pRfds) = 0 \/ Len(pCount) = 0
    THEN [ s |-> s, inq |-> inq, pRfds |-> pRfds, pCount |-> pCount,
           result |-> "NO_ERR", acc |-> [reads |-> <<>>, cbs |-> <<>>] ]
    ELSE IF pCount[1] > 0
    THEN LET x == ListenLoop([ s |-> s, inq |-> inq, pRfds |-> pRfds[1], pCount |-> pCount[1],
                               result |-> "NO_ERR", acc |-> [reads |-> <<>>, cbs |-> <<>>] ],
                             1, t)
         IN  [x EXCEPT !.pRfds = <<@>>, !.pCount = <<@>>]
    ELSE [ s |-> s, inq |-> inq, pRfds |-> pRfds, pCount |-> pCount,
           result |-> "NO_ERR", acc |-> [reads |-> <<>>, cbs |-> <<>>] ]

(***************************************************************************)
(* Specification SpecListen: trdp_pdCheckListenSocks on a session with two *)
(* sockets, one of them shared by two subscribers, and datagrams queued on *)
(* them                                                                    *)
(***************************************************************************)
\* The session is blocking or not; subscribers of comId 1 and 2 share
\* socket 3, the subscriber of comId 3 has socket 4.  Fewer than MaxQueue
\* datagrams wait on socket 3 (good frames for the two subscribers, a frame
\* with a bad FCS, a frame nobody subscribed to), at most one on socket 4
\* (a good frame, or a datagram of header size whose header announces two
\* bytes of data).
InitListen ==
    /\ \E option \in {{}, {"BLOCK"}} :
         sess = [ AddRecv(
                    AddRecv(
                      AddRecv(OpenSession(0, 0) @@ [option |-> option],
                              NewElement(1, 1, 0, 0, 0, 0, 0, {}, "NULL"), 0),
                      NewElement(2, 2, 0, 0, 0, 0, 0, {}, "NULL"), 0),
                    NewElement(3, 3, 0, 0, 0, 0, 0, {}, "NULL"), 0)
                  EXCEPT !.iface = <<[sock |-> 3, usage |-> 2], [sock |-> 4, usage |-> 1]>>,
                         !.pRcvQueue[3].socketIdx = 2 ]
    /\ \E n \in 0..(MaxQueue - 1) :
       \E q3 \in [1..n -> { RxFrame(TRDP_MSG_PD, 1, U32(1), 5, <<7>>, TRUE),
                            RxFrame(TRDP_MSG_PD, 2, U32(1), 5, <<7>>, TRUE),
                            RxFrame(TRDP_MSG_PD, 1, U32(2), 5, <<8>>, FALSE),
                            RxFrame(TRDP_MSG_PD, 9, U32(1), 5, <<7>>, TRUE) }],
          q4 \in { <<>>, <<RxFrame(TRDP_MSG_PD, 3, U32(1), 5, <<7>>, TRUE)>>,
                   <<[RxFrame(TRDP_MSG_PD, 3, U32(1), 5, <<7, 8>>, TRUE)
                        EXCEPT !.data = <<>>, !.size = TRDP_MIN_PD_HEADER_SIZE]>> } :
         inp = [sock \in {3, 4} |-> IF sock = 3 THEN q3 ELSE q4]
    /\ peer = OpenSession(0, 0)
    /\ wire = <<>>
    /\ now = 1
    /\ hist = 0
    /\ last = [op |-> "init"]

\* trdp_pdCheckListenSocks, at most twice, with any descriptor set and
\* count; a blocking session is only asked to read sockets that hold a
\* datagram.
CheckListenSocks ==
    /\ hist < 2
    /\ \E pRfds \in {<<>>} \cup {<<fds>> : fds \in SUBSET {3, 4}},
          pCount \in {<<>>, <<0>>, <<1>>, <<2>>} :
       /\ (HasFlag(sess.option, "BLOCK") /\ Len(pRfds) > 0)
             => \A sock \in pRfds[1] : inp[sock] # <<>>
       /\ \E r \in {trdp_pdCheckListenSocks(sess, now, inp, pRfds, pCount)} :
            /\ sess' = r.s
            /\ inp' = r.inq
            /\ last' = [ op |-> "CheckListenSocks", result |-> r.result,
                         reads |-> r.acc.reads, pRfds |-> r.pRfds, pCount |-> r.pCount,
                         rfdsIn |-> pRfds, countIn |-> pCount, queued |-> inp ]
    /\ hist' = hist + 1
    /\ UNCHANGED <<peer, wire, now>>

SpecListen == InitListen /\ [][CheckListenSocks]_vars

\* The results of the calls of Receive on a socket, in order.
C31_Reads(l, sock) == SelectSeq(l.reads, LAMBDA r : r.sock = sock)

\* The sockets a call has to service: those of the descriptor set a
\* subscriber is bound to, unless a pointer is NULL or the count is not
\* positive.
C31_Serviced(s, l) ==
    IF Len(l.rfdsIn) = 0 \/ Len(l.countIn) = 0 THEN {}
    ELSE IF l.countIn[1] <= 0 THEN {}
    ELSE { sock \in l.rfdsIn[1] :
             \E k \in 1..Len(s.pRcvQueue) :
                /\ s.pRcvQueue[k].socketIdx # TRDP_INVALID_SOCKET_INDEX
                /\ s.iface[s.pRcvQueue[k].socketIdx].sock = sock }

\* C31: CheckListenSocks services each ready socket once per call: on
\* every socket of rfds a subscriber is bound to, Receive is called again
\* and again while it returns NoErr and the session is non-blocking (once in
\* blocking mode), then count is decremented once and the bit of the socket
\* cleared, also when subscribers share the socket; with rfds or count NULL
\* or count not positive Receive is not called; the last call on each
\* socket of a non-blocking session returned an error.
C31_ServicedOnce ==
    (last.op = "CheckListenSocks") =>
        /\ \A sock \in {3, 4} \ C31_Serviced(sess, last) : C31_Reads(last, sock) = <<>>
        /\ \A sock \in C31_Serviced(sess, last) :
             LET r == C31_Reads(last, sock) IN
             /\ Len(r) >= 1
             /\ \A n \in 1..(Len(r) - 1) : r[n].err = "NO_ERR"
             /\ IF HasFlag(sess.option, "BLOCK") THEN Len(r) = 1
                ELSE r[Len(r)].err # "NO_ERR"
        /\ C31_Serviced(sess, last) = {} => last.reads = <<>>
        /\ (Len(last.rfdsIn) > 0 /\ Len(last.countIn) > 0) =>
             /\ last.pRfds = <<last.rfdsIn[1] \ C31_Serviced(sess, last)>>
             /\ last.pCount = <<last.countIn[1] - Cardinality(C31_Serviced(sess, last))>>

\* on the shared socket of a non-blocking session two frames were read and
\* the third read found it empty; the count went down by one
C31_Witness ==
    /\ last.op = "CheckListenSocks"
    /\ ~HasFlag(sess.option, "BLOCK")
    /\ last.rfdsIn = <<{3}>>
    /\ last.countIn = <<1>>
    /\ last.pCount = <<0>>
    /\ last.pRfds = <<{}>>
    /\ Len(last.reads) = 3
    /\ last.reads[3].err = "BLOCK_ERR"
    /\ sess.pRcvQueue[1].numRxTx = 1
    /\ sess.pRcvQueue[2].numRxTx = 1

\* C39: in non-blocking mode one call of CheckListenSocks drains every
\* ready subscriber socket: all datagrams queued on the socket when the call
\* began are read in that call, also when one of them is rejected, so that
\* a bad or unsubscribed frame does not delay those queued behind it.
C39_Drained ==
    (last.op = "CheckListenSocks" /\ ~HasFlag(sess.option, "BLOCK")) =>
        \A sock \in C31_Serviced(sess, last) :
            /\ inp[sock] = <<>>
            /\ Len(C31_Reads(last, sock)) >= Len(last.queued[sock])

\* The callbacks a send pass made for publishers.
C32_PubCbs(l) == {n \in 1..Len(l.cbs) : l.cbs[n].side = "pub"}

\* Does the PdInfo cb echo the header of frame f?
C32_Echoes(cb, f) ==
    /\ cb.msgType = f.head.msgType
    /\ cb.etbTopoCnt = f.head.etbTopoCnt
    /\ cb.opTrnTopoCnt = f.head.opTrnTopoCnt
    /\ cb.replyComId = f.head.replyComId
    /\ cb.replyIpAddr = f.head.replyIpAddress
    /\ cb.protVersion = f.head.protocolVersion
    /\ cb.seqCount = f.head.sequenceCounter

\* C32: the PdInfo handed to a publisher's callback in a send pass echoes
\* the frame that is about to be emitted: msgType, topology counters,
\* replyComId, replyIpAddr and seqCount are those of the header of the
\* outgoing frame, for cyclic PD frames and for PP pull replies.
C32_Step ==
    \A n \in C32_PubCbs(last') :
        \E f \in Handed(last') :
            /\ f.elt = last'.cbs[n].elt
            /\ C32_Echoes(last'.cbs[n], f)
C32_CallbackEchoesFrame == [][C32_Step]_vars

\* C33: the pull destination is used once and for the pull reply only:
\* every cyclic PD frame of a publisher is sent to the destIpAddr of the
\* element, whatever pull requests were received before, those that got no
\* reply included.
C33_Step ==
    \A f \in Handed(last') :
        (f.head.msgType = TRDP_MSG_PD) =>
            f.destIp = ById(sess.pSndQueue, f.elt).addr.destIpAddr
C33_CyclicToOwnAddress == [][C33_Step]_vars

\* C34: a Put that fails (ParamErr, MemErr) leaves the element as it was:
\* dataSize, grossSize, the datasetLength of the header, pFrame,
\* INVALID_DATA and updPkts keep their values; so the dataSize of an element
\* and the datasetLength of its frame never exceed TRDP_MAX_PD_DATA_SIZE.
C34_Step ==
    LET e == sess.pSndQueue[1]
        e2 == sess'.pSndQueue[1]
    IN  /\ (last'.op = "Put" /\ last'.ret # "NO_ERR") =>
              /\ e2.dataSize = e.dataSize
              /\ e2.grossSize = e.grossSize
              /\ e2.pFrame = e.pFrame
              /\ e2.privFlags = e.privFlags
              /\ e2.updPkts = e.updPkts
              /\ FrameHead(sess', e2).datasetLength = FrameHead(sess, e).datasetLength
        /\ e2.dataSize <= TRDP_MAX_PD_DATA_SIZE
        /\ FrameHead(sess', e2).datasetLength <= TRDP_MAX_PD_DATA_SIZE
C34_FailedPutKeepsElement == [][C34_Step]_vars

\* C35: Put never copies more bytes into the frame of an element than the
\* payload capacity the buffer was allocated for.
C35_WithinCapacity ==
    Len(sess.mem[sess.pSndQueue[1].pFrame].data) <= sess.mem[sess.pSndQueue[1].pFrame].cap

\* C36: for every frame Receive accepts, the datasetLength of its header is
\* at most the number of payload bytes received (the size of the datagram
\* less the header size).
C36_LengthWithinDatagram ==
    (last.op = "CheckListenSocks") =>
        \A sock \in {3, 4} :
            \A n \in 1..Len(C31_Reads(last, sock)) :
                (C31_Reads(last, sock)[n].err = "NO_ERR") =>
                    last.queued[sock][n].head.datasetLength
                        <= last.queued[sock][n].size - TRDP_MIN_PD_HEADER_SIZE

\* C37: a Receive that matches a subscriber and does not accept the frame
\* for it (duplicate or old counter, counter list full, topography
\* mismatch) leaves addr.destIpAddr and lastSrcIP of the subscriber as they
\* were.
C37_Step ==
    (last'.op = "Receive" /\ last'.matched # 0 /\ last'.accepted = 0) =>
        /\ sess'.pRcvQueue[last'.matched].lastSrcIP = sess.pRcvQueue[last'.matched].lastSrcIP
        /\ sess'.pRcvQueue[last'.matched].addr.destIpAddr
              = sess.pRcvQueue[last'.matched].addr.destIpAddr
C37_RejectedKeepsAddresses == [][C37_Step]_vars

(***************************************************************************)
(* Specification SpecEmit: the publishers of Spec with a redundancy group  *)
(* that changes between follower and leader, and no pull requests          *)
(***************************************************************************)
\* The publishers of Spec, published at time 0: the cyclic one is due at
\* every time from 1 on.
InitEmit ==
    /\ sess = AddSend(
                AddSend(OpenSession(0, 0),
                        NewElement(1, 1, 10, 20, 0, 0, 1, {"CALLBACK"}, "pubCb"),
                        TRDP_MSG_PD, 1, 0, 0, 0),
                NewElement(2, 2, 10, 21, 0, 0, 0, {}, "pubCb"),
                TRDP_MSG_PD, 0, 0, 0, 0)
    /\ peer = OpenSession(0, 0)
    /\ wire = <<>>
    /\ now = 1
    /\ inp = <<>>
    /\ hist = [hi |-> NoneHanded]
    /\ last = Outputs("init", NoOutput, {})

\* tlp_setRedundant: the cyclic publisher becomes the leader again.
SetLeader ==
    /\ "REDUNDANT" \in sess.pSndQueue[1].privFlags
    /\ sess' = [sess EXCEPT !.pSndQueue[1].privFlags = @ \ {"REDUNDANT"}]
    /\ last' = Outputs("SetLeader", NoOutput, {})
    /\ UNCHANGED <<peer, wire, now, inp, hist>>

SpecEmit == InitEmit /\ [][Tick \/ Put \/ SetRedundant \/ SetLeader \/ SendDue]_vars

\* C38: consecutive frames of one message type that a publisher hands to
\* the transport carry consecutive sequence counters: each is one higher
\* than the last one handed over before, also when passes in between
\* skipped the publisher.
C38_Step ==
    \A f \in Handed(last') :
        (hist.hi[f.elt][f.head.msgType] # U32(0)) =>
            f.head.sequenceCounter = U32Add(hist.hi[f.elt][f.head.msgType], U32(1))
C38_ConsecutiveCounters == [][C38_Step]_vars

\* C40: the resultCode handed to a publisher's callback by a send pass is
\* NoErr: the callback is made for an element that passed its checks, and
\* errors of elements visited earlier in the pass do not show in it.
C40_OwnResult ==
    (last.op = "SendDue") =>
        \A n \in 1..Len(last.cbs) :
            (last.cbs[n].side = "pub") => last.cbs[n].resultCode = "NO_ERR"

====
